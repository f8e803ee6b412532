--------------------------- MODULE MCEndpointTests --------------------------
(* Instances of EndpointTests for TLC: a batch with a test that is no object, *)
(* a request that is not written like its route, and two routes at once.     *)
EXTENDS EndpointTests

Test(path, varied, expected) == [path |-> path, varied |-> varied, expected |-> expected]
ThreeBatches == {<<Malformed, Test("x", FALSE, 200)>>, <<Test("x", TRUE, 0)>>,
                 <<Test("x", FALSE, 0), Test("y", FALSE, 200)>>}
=============================================================================
