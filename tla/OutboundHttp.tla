----------------------------- MODULE OutboundHttp ---------------------------
(***************************************************************************)
(* The tracking of outbound HTTP calls (inspector_http_client.go) for one  *)
(* client of the application.  A transport is the number of tracking       *)
(* layers around it.  RegisterHttpClient reads and replaces the client's   *)
(* transport without a lock, while others register the client, call with   *)
(* it, or give it another transport; a call goes through the layers that   *)
(* it found and each counts it, under the lock of the statistics, when the *)
(* inner one has returned.                                                 *)
(***************************************************************************)
EXTENDS Integers, Sequences, FiniteSets, GoData

CONSTANTS Registrars,  \* goroutines that register the client, under their name
          Callers,     \* goroutines that call with it
          Hosts,
          MaxCalls,    \* bound: calls
          MaxChanges   \* bound: transports that the application sets or wraps

ASSUME CallersAssumption == IsFiniteSet(Callers) /\ MaxCalls \in Nat /\ MaxChanges \in Nat

Outcomes == {"error", "200"}   \* of one status, for all that are no error
NoCall   == [at |-> "none"]
NoAnswer == [at |-> "none"]

VARIABLES
    transport,    \* layers around the client's transport
    registering,  \* where each registrar is; "fresh" until the transport is changed
    clients,      \* names in httpClientRegistry
    calls,        \* where each caller is
    outbound,     \* globalOutboundStats
    summary,      \* the last answer of get_outbound_summary
    changes,      \* transports the application has set or wrapped
    wrapped,      \* it wrapped one
    begun, sure   \* calls begun; calls done that began with a client sure to be tracked

outVars == <<transport, registering, clients, calls, outbound, summary,
             changes, wrapped, begun, sure>>

OutInit ==
    /\ transport = 0
    /\ registering = [r \in Registrars |-> [at |-> "start", read |-> 0, fresh |-> TRUE]]
    /\ clients = {}
    /\ calls = [c \in Callers |-> NoCall]
    /\ outbound = [totalCalls |-> 0, totalErrors |-> 0, perHost |-> <<>>, statusCodes |-> <<>>]
    /\ summary = NoAnswer
    /\ changes = 0
    /\ wrapped = FALSE
    /\ begun = 0
    /\ sure = 0

-----------------------------------------------------------------------------
(* RegisterHttpClient reads the transport once; a nil one is the default.  *)

ReadTransport(r) ==
    /\ registering[r].at = "start"
    /\ registering' = [registering EXCEPT ![r] =
                         [at |-> IF transport > 0 THEN "name" ELSE "wrap",
                          read |-> transport, fresh |-> TRUE]]
    /\ UNCHANGED <<transport, clients, calls, outbound, summary, changes, wrapped, begun, sure>>

\* Mutant: what is wrapped is read again.
WrappedBy_Rereads(r) == transport + 1

WrappedBy(r) == registering[r].read + 1

SetTransport(r) ==
    /\ registering[r].at = "wrap"
    /\ transport' = WrappedBy(r)
    /\ registering' = [registering EXCEPT ![r].at = "name"]
    /\ UNCHANGED <<clients, calls, outbound, summary, changes, wrapped, begun, sure>>

NameClient(r) ==
    /\ registering[r].at = "name"
    /\ clients' = clients \cup {r}
    /\ registering' = [registering EXCEPT ![r].at = "done"]
    /\ UNCHANGED <<transport, calls, outbound, summary, changes, wrapped, begun, sure>>

\* The application sets a transport of its own ...
AppSetsTransport ==
    /\ changes < MaxChanges
    /\ changes' = changes + 1
    /\ transport' = 0
    /\ registering' = [r \in Registrars |-> [registering[r] EXCEPT !.fresh = FALSE]]
    /\ UNCHANGED <<clients, calls, outbound, summary, wrapped, begun, sure>>

\* ... or wraps the one there is; nothing asks whether it is wrapped already.
WrapHttpClientTransport ==
    /\ changes < MaxChanges
    /\ changes' = changes + 1
    /\ transport' = transport + 1
    /\ wrapped' = TRUE
    /\ UNCHANGED <<registering, clients, calls, outbound, summary, begun, sure>>

-----------------------------------------------------------------------------
(* trackingTransport.RoundTrip.                                            *)

Tracked == \E r \in Registrars : registering[r].at = "done" /\ registering[r].fresh

BeginCall(c, h) ==
    /\ calls[c] = NoCall
    /\ begun < MaxCalls
    /\ begun' = begun + 1
    /\ calls' = [calls EXCEPT ![c] = [at |-> "inner", host |-> h, left |-> transport,
                                      sure |-> Tracked, outcome |-> "none"]]
    /\ UNCHANGED <<transport, registering, clients, outbound, summary, changes, wrapped, sure>>

Done(c) ==
    /\ calls' = [calls EXCEPT ![c] = NoCall]
    /\ sure' = IF calls[c].sure THEN sure + 1 ELSE sure

InnerReturns(c, outcome) ==
    /\ calls[c].at = "inner"
    /\ IF calls[c].left = 0 THEN Done(c)
       ELSE /\ calls' = [calls EXCEPT ![c] = [@ EXCEPT !.at = "counts", !.outcome = outcome]]
            /\ UNCHANGED sure
    /\ UNCHANGED <<transport, registering, clients, outbound, summary, changes, wrapped, begun>>

One(counts, k) == IF k \in DOMAIN counts THEN counts[k] + 1 ELSE 1

\* Mutant: a call that failed is not counted for its host.
HostCount_NoErrors(stats, host, failed) ==
    IF failed THEN stats.perHost ELSE Put(stats.perHost, host, One(stats.perHost, host))

HostCount(stats, host, failed) == Put(stats.perHost, host, One(stats.perHost, host))

CountCall(c) ==
    /\ calls[c].at = "counts"
    /\ LET failed == calls[c].outcome = "error"
       IN  outbound' =
             [totalCalls  |-> outbound.totalCalls + 1,
              totalErrors |-> outbound.totalErrors + IF failed THEN 1 ELSE 0,
              perHost     |-> HostCount(outbound, calls[c].host, failed),
              statusCodes |-> IF failed THEN outbound.statusCodes
                              ELSE Put(outbound.statusCodes, calls[c].outcome,
                                       One(outbound.statusCodes, calls[c].outcome))]
    /\ IF calls[c].left = 1 THEN Done(c)
       ELSE /\ calls' = [calls EXCEPT ![c].left = @ - 1]
            /\ UNCHANGED sure
    /\ UNCHANGED <<transport, registering, clients, summary, changes, wrapped, begun>>

-----------------------------------------------------------------------------
(* get_outbound_summary.  Its answer holds the map of status codes itself, *)
(* which is encoded after the lock was released.                           *)

Summarize ==
    /\ summary.at # "summarized"
    /\ outbound.totalCalls > 0
    /\ summary' = [at |-> "summarized", total |-> outbound.totalCalls,
                   errors |-> outbound.totalErrors, codes |-> <<>>]
    /\ UNCHANGED <<transport, registering, clients, calls, outbound, changes, wrapped, begun, sure>>

Encode ==
    /\ summary.at = "summarized"
    /\ summary' = [summary EXCEPT !.at = "encoded", !.codes = outbound.statusCodes]
    /\ UNCHANGED <<transport, registering, clients, calls, outbound, changes, wrapped, begun, sure>>

OutNext ==
    \/ \E r \in Registrars : ReadTransport(r) \/ SetTransport(r) \/ NameClient(r)
    \/ AppSetsTransport \/ WrapHttpClientTransport
    \/ \E c \in Callers :
          \/ \E h \in Hosts : BeginCall(c, h)
          \/ \E outcome \in Outcomes : InnerReturns(c, outcome)
          \/ CountCall(c)
    \/ Summarize \/ Encode

OutSpec == OutInit /\ [][OutNext]_outVars

\* get_http_transport_stats unwraps one layer and tells what is in an
\* *http.Transport, of anything else only the type.
InspectTransport(layers) == [tracked |-> layers > 0, config |-> layers < 2]

-----------------------------------------------------------------------------
(* Properties.                                                             *)

OutTypeOK ==
    /\ transport \in Nat
    /\ \A r \in Registrars : registering[r] \in
          [at : {"start", "wrap", "name", "done"}, read : Nat, fresh : BOOLEAN]
    /\ clients \subseteq Registrars
    /\ \A c \in Callers : calls[c].at \in {"none", "inner", "counts"}
    /\ outbound.totalCalls \in Nat /\ outbound.totalErrors \in Nat
    /\ DOMAIN outbound.perHost \subseteq Hosts
    /\ DOMAIN outbound.statusCodes \subseteq Outcomes
    /\ begun \in 0..MaxCalls /\ sure \in 0..MaxCalls /\ changes \in 0..MaxChanges

\* However registrations and calls interleave, a client that was registered is
\* tracked, a call with it is counted, and counted once unless the application
\* has wrapped a transport itself; then its configuration can be told too.
CountedOnce ==
    /\ Tracked => InspectTransport(transport).tracked
    /\ sure <= outbound.totalCalls
    /\ ~wrapped => outbound.totalCalls <= begun /\ InspectTransport(transport).config

\* The counters agree: every counted call has its host, and an error or a status.
CountersAdd ==
    /\ Total(outbound.perHost) = outbound.totalCalls
    /\ Total(outbound.statusCodes) + outbound.totalErrors = outbound.totalCalls

\* A summary's status codes may be newer than its total, and account for no
\* fewer calls.
SummaryTells ==
    summary.at = "encoded" => Total(summary.codes) + summary.errors >= summary.total

\* The numbers on outbound calls can be relied on.
OutboundRight == CountedOnce /\ CountersAdd /\ SummaryTells
=============================================================================
