---------------------------- MODULE ChatPageProofs --------------------------
(***************************************************************************)
(* The chat page, for any number of messages and events, any tools and     *)
(* every way the network cuts the stream: events are handled in order,     *)
(* each once, the badges tell what runs, and no text is left out.  First   *)
(* how frames lie on the wire and what one piece of a frame does, then     *)
(* what a chunk does, then the invariant of page and server.               *)
(***************************************************************************)
EXTENDS ChatPage, GoDataProofs

USE PageAssumption

-----------------------------------------------------------------------------
(* Frames on the wire.                                                     *)

\* How many pieces a frame has, and which of them makes the page handle it:
\* the newline of its first empty line.
Size(f) == IF f.event # "error" THEN 5
           ELSE IF f.text = "lines" THEN 7 ELSE IF f.text = "gap" THEN 8 ELSE 5

Ends(f) == IF f.event = "error" /\ f.text = "lines" THEN 7 ELSE 5

\* The piece that is the "other" line of an error message, if it has one.
Other(f) == IF f.event # "error" THEN 0
            ELSE IF f.text = "lines" THEN 5 ELSE IF f.text = "gap" THEN 6 ELSE 0

LEMMA FrameKinds ==
    \A f \in Frame : /\ f.event \in {"content", "done", "tool_start", "tool_result", "error"}
                     /\ f.event \in {"tool_start", "tool_result"} => f.tool \in Tools
                     /\ f.event = "error" => f.text \in {"line", "lines", "gap"}
  BY DEF Frame

\* What write makes of an event.
LEMMA PiecesAre ==
    ASSUME NEW f \in Frame
    PROVE  /\ DOMAIN Pieces(f) = 1..Size(f) /\ Len(Pieces(f)) = Size(f)
           /\ Pieces(f) = [j \in 1..Size(f) |->
                             IF j = 1 THEN Piece("event", f)
                             ELSE IF j = 3 THEN Piece("data", f)
                             ELSE IF j = Other(f) THEN Piece("other", f)
                             ELSE Newline]
<1>1. CASE f.event # "error" \/ f.text = "line"
  <2>1. Pieces(f) = <<Piece("event", f), Newline, Piece("data", f), Newline, Newline>>
    BY <1>1, FrameKinds DEF Pieces
  <2>2. Size(f) = 5 /\ Other(f) = 0
    BY <1>1 DEF Size, Other
  <2> QED
    BY <2>1, <2>2
<1>2. CASE f.event = "error" /\ f.text = "lines"
  <2>1. Pieces(f) = <<Piece("event", f), Newline, Piece("data", f), Newline,
                      Piece("other", f), Newline, Newline>>
    BY <1>2 DEF Pieces
  <2>2. Size(f) = 7 /\ Other(f) = 5
    BY <1>2 DEF Size, Other
  <2> QED
    BY <2>1, <2>2
<1>3. CASE f.event = "error" /\ f.text = "gap"
  <2>1. Pieces(f) = <<Piece("event", f), Newline, Piece("data", f), Newline,
                      Newline, Piece("other", f), Newline, Newline>>
    BY <1>3 DEF Pieces
  <2>2. Size(f) = 8 /\ Other(f) = 6
    BY <1>3 DEF Size, Other
  <2> QED
    BY <2>1, <2>2
<1> QED
  BY <1>1, <1>2, <1>3, FrameKinds

\* The wire of some frames.
WireOf(s) == FlattenSeq([i \in DOMAIN s |-> Pieces(s[i])])

\* Another frame comes after the others.
LEMMA WireGrows ==
    ASSUME NEW s \in Seq(Frame), NEW f \in Frame
    PROVE  /\ s = <<>> => WireOf(s) = <<>> /\ WireOf(Append(s, f)) = Pieces(f)
           /\ s # <<>> => WireOf(Append(s, f)) = WireOf(s) \o Pieces(f)
<1> DEFINE n == Len(s)
           t == Append(s, f)
           few == [i \in DOMAIN s |-> Pieces(s[i])]
           many == [i \in DOMAIN t |-> Pieces(t[i])]
<1>1. /\ n \in Nat /\ DOMAIN s = 1..n /\ DOMAIN t = 1..n + 1 /\ t[n + 1] = f
      /\ \A i \in 1..n : t[i] = s[i]
  OBVIOUS
<1> HIDE DEF n, t
<1>2. /\ Len(few) = n /\ Len(many) = n + 1 /\ many[n + 1] = Pieces(f)
      /\ \A i \in 1..n : few[i] = many[i]
  BY <1>1
<1>3. WireOf(s) = FlattenSeq(few) /\ WireOf(t) = FlattenSeq(many)
  BY DEF WireOf
<1> HIDE DEF few, many
<1>4. FlattenSeq(many) = IF n = 0 THEN Pieces(f) ELSE FlattenSeq(few) \o Pieces(f)
  <2>1. n \in Nat
    BY <1>1
  <2>2. FlattenSeq(many) = IF n = 0 THEN many[n + 1] ELSE FlattenSeq(few) \o many[n + 1]
    BY ONLY <2>1, <1>2, FlattenOneMore
  <2> QED
    BY <1>2, <2>2
<1>5. s = <<>> => WireOf(s) = <<>>
  BY DEF WireOf, FlattenSeq
<1>6. s = <<>> <=> n = 0
  BY DEF n
<1> QED
  BY <1>3, <1>4, <1>5, <1>6 DEF t

\* What is written: ends of lines, and pieces of text with their frames.
PieceSet == {Newline} \cup {Piece(x, f) : x \in {"event", "data", "other"}, f \in Frame}

\* The frames s lie on the wire one after the other, the m-th from off[m - 1].
Framed(off, s, wire) ==
    /\ off \in [0..Len(s) -> Nat] /\ off[0] = 0
    /\ wire \in Seq(PieceSet) /\ Len(wire) = off[Len(s)]
    /\ \A m \in 0..Len(s) : off[m] <= Len(wire)
    /\ \A m \in 1..Len(s) :
          /\ off[m] = off[m - 1] + Size(s[m])
          /\ \A j \in 1..Size(s[m]) : wire[off[m - 1] + j] = Pieces(s[m])[j]

\* The wire after one frame more, and where its frames lie.
NextWire(s, f, wire, next) == next = IF s = <<>> THEN Pieces(f) ELSE wire \o Pieces(f)

FramedMore(more, off, s, f, next) ==
    Framed(more, Append(s, f), next) /\ \A m \in 0..Len(s) : more[m] = off[m]

LEMMA FramedGrows ==
    ASSUME NEW off, NEW s \in Seq(Frame), NEW wire, Framed(off, s, wire), NEW f \in Frame,
           NEW next, NextWire(s, f, wire, next)
    PROVE  \E more : FramedMore(more, off, s, f, next)
<1>0. next = IF s = <<>> THEN Pieces(f) ELSE wire \o Pieces(f)
  BY DEF NextWire
<1> DEFINE n == Len(s)
           l == Len(wire)
           t == Append(s, f)
           more == [m \in 0..n + 1 |-> IF m <= n THEN off[m] ELSE l + Size(f)]
<1>1. /\ n \in Nat /\ t \in Seq(Frame) /\ Len(t) = n + 1 /\ t[n + 1] = f
      /\ \A i \in 1..n : t[i] = s[i] /\ s[i] \in Frame
  OBVIOUS
<1>2. Pieces(f) \in Seq(PieceSet) /\ Len(Pieces(f)) = Size(f) /\ Size(f) \in Nat
  <2>1. Size(f) \in Nat
    BY DEF Size
  <2>2. \A j \in 1..Size(f) : Pieces(f)[j] \in PieceSet
    BY PiecesAre DEF PieceSet
  <2>3. Pieces(f) \in [1..Size(f) -> PieceSet]
    BY <2>2, PiecesAre
  <2> QED
    BY <2>1, <2>3, PiecesAre
<1>3. /\ l \in Nat /\ wire \in Seq(PieceSet) /\ off \in [0..n -> Nat] /\ l = off[n]
      /\ off[0] = 0 /\ \A m \in 0..n : off[m] <= l
  BY DEF Framed
<1>4. /\ next \in Seq(PieceSet) /\ Len(next) = l + Size(f)
      /\ \A i \in 1..l : next[i] = wire[i]
      /\ \A j \in 1..Size(f) : next[l + j] = Pieces(f)[j]
  <2>1. CASE s = <<>>
    <3>1. n = 0 /\ l = 0
      BY <1>3, <2>1
    <3> QED
      BY <1>0, <1>2, <2>1, <3>1
  <2>2. CASE s # <<>>
    <3>1. next = wire \o Pieces(f)
      BY <1>0, <2>2
    <3>2. /\ wire \o Pieces(f) \in Seq(PieceSet)
          /\ Len(wire \o Pieces(f)) = Len(wire) + Len(Pieces(f))
          /\ \A i \in 1..Len(wire) + Len(Pieces(f)) :
                (wire \o Pieces(f))[i] = IF i <= Len(wire) THEN wire[i]
                                         ELSE Pieces(f)[i - Len(wire)]
      BY ONLY <1>2, <1>3, ConcatProperties
    <3> DEFINE b == Pieces(f)
               k == Size(f)
    <3>3. /\ l \in Nat /\ k \in Nat /\ Len(next) = l + k /\ next \in Seq(PieceSet)
          /\ \A i \in 1..l + k : next[i] = IF i <= l THEN wire[i] ELSE b[i - l]
      BY <1>2, <1>3, <3>1, <3>2
    <3> HIDE DEF l, b, k
    <3>4. \A j \in 1..k : l + j \in 1..l + k /\ ~(l + j <= l) /\ (l + j) - l = j
      BY <3>3
    <3>5. \A i \in 1..l : i \in 1..l + k /\ i <= l
      BY <3>3
    <3>6. /\ \A i \in 1..l : next[i] = wire[i]
          /\ \A j \in 1..k : next[l + j] = b[j]
      BY <3>3, <3>4, <3>5
    <3> QED
      BY <3>3, <3>6 DEF b, k
  <2> QED
    BY <2>1, <2>2
<1> HIDE DEF t, n, l
<1>5. /\ more \in [0..n + 1 -> Nat] /\ more[n + 1] = l + Size(f)
      /\ \A m \in 0..n : more[m] = off[m]
  BY <1>1, <1>2, <1>3
<1> HIDE DEF more
<1>6. \A m \in 0..n + 1 : more[m] <= Len(next)
  <2> DEFINE k == Size(f)
  <2>1. k \in Nat /\ l \in Nat /\ Len(next) = l + k /\ more[n + 1] = l + k
    BY <1>2, <1>3, <1>4, <1>5
  <2>2. \A m \in 0..n : more[m] \in Nat /\ more[m] <= l
    BY <1>1, <1>3, <1>5
  <2>3. \A m \in 0..n + 1 : m \in 0..n \/ m = n + 1
    BY <1>1
  <2> HIDE DEF k
  <2> QED
    BY <2>1, <2>2, <2>3
<1>7. ASSUME NEW m \in 1..n + 1
      PROVE  /\ more[m] = more[m - 1] + Size(t[m])
             /\ \A j \in 1..Size(t[m]) : next[more[m - 1] + j] = Pieces(t[m])[j]
  <2>1. CASE m = n + 1
    <3>1. more[m - 1] = l
      BY <1>1, <1>3, <1>5, <2>1
    <3> QED
      BY <1>1, <1>4, <1>5, <2>1, <3>1
  <2>2. CASE m \in 1..n
    <3>1. /\ more[m] = off[m] /\ more[m - 1] = off[m - 1] /\ t[m] = s[m]
          /\ off[m] \in Nat /\ off[m - 1] \in Nat /\ off[m] <= l
      <4>1. m \in 0..n /\ m - 1 \in 0..n
        BY <1>1, <2>2
      <4> QED
        BY <1>1, <1>3, <1>5, <2>2, <4>1
    <3>2. /\ off[m] = off[m - 1] + Size(s[m])
          /\ \A j \in 1..Size(s[m]) : wire[off[m - 1] + j] = Pieces(s[m])[j]
      BY <2>2 DEF Framed, n
    <3>3. Size(s[m]) \in Nat
      BY DEF Size
    <3>4. \A j \in 1..Size(s[m]) : off[m - 1] + j \in 1..l
      <4> DEFINE o == off[m - 1]
                 k == Size(s[m])
      <4>1. o \in Nat /\ k \in Nat /\ o + k <= l /\ l \in Nat
        BY <1>3, <3>1, <3>2, <3>3
      <4> HIDE DEF o, k
      <4>2. \A j \in 1..k : o + j \in 1..l
        BY <4>1
      <4> QED
        BY <4>2 DEF o, k
    <3> QED
      BY <1>4, <3>1, <3>2, <3>4
  <2>3. m = n + 1 \/ m \in 1..n
    BY <1>1
  <2> QED
    BY <2>1, <2>2, <2>3
<1>8. Framed(more, t, next)
  <2>1. n \in Nat /\ 0 \in 0..n /\ n + 1 \in 0..n + 1
    BY <1>1
  <2>2. more[0] = 0 /\ Len(next) = more[n + 1]
    BY <1>3, <1>4, <1>5, <2>1
  <2> QED
    BY <1>1, <1>4, <1>5, <1>6, <1>7, <2>2 DEF Framed
<1> QED
  BY <1>5, <1>8 DEF t, n, FramedMore

-----------------------------------------------------------------------------
(* What a chunk does: its pieces are handled one after the other.          *)

Handling == INSTANCE Loops WITH Step <- HandlePiece

\* The pages between the first and the last: q[i] has handled i pieces.
Runs(q, p, chunk, l) ==
    /\ q[0] = p
    /\ \A i \in 1..l : q[i] = HandlePiece(q[i - 1], chunk[i])
    /\ q[l] = FoldLeft(HandlePiece, p, chunk)

LEMMA ChunkRuns ==
    ASSUME NEW p, NEW chunk, NEW l \in Nat, DOMAIN chunk = 1..l
    PROVE  \E q : Runs(q, p, chunk, l)
<1>1. \E q : Handling!Runs(q, p, chunk, l)
  BY Handling!LoopRuns
<1>2. Handling!FoldLeft(HandlePiece, p, chunk) = FoldLeft(HandlePiece, p, chunk)
  BY DEF Handling!FoldLeft, Handling!MapThenFoldSet, Handling!Max, FoldLeft, MapThenFoldSet, Max
<1> QED
  BY <1>1, <1>2 DEF Handling!Runs, Runs

-----------------------------------------------------------------------------
(* The page in the middle of a frame.                                      *)

Names == {"content", "done", "tool_start", "tool_result", "error"}

Badge == [tool : Tools, state : {"pending", "success", "error"}]

PageType(p) ==
    /\ p \in [buffer : PieceSet \cup {Blank}, event : Names \cup {"none"},
              data : Frame \cup {NoFrame}, streamDone : BOOLEAN, raw : Nat,
              badges : Seq(Badge), badgeMap : [Tools -> Nat], errors : Nat, seen : Seq(Frame)]
    /\ \A t \in Tools : p.badgeMap[t] <= Len(p.badges)

\* The parser after r pieces of the frame f.
Stage(p, f, r) ==
    /\ p.buffer = IF r = 1 THEN Piece("event", f)
                  ELSE IF r = 3 THEN Piece("data", f)
                  ELSE IF r # 0 /\ r = Other(f) THEN Piece("other", f)
                  ELSE Blank
    /\ p.event = IF r \in 2..Ends(f) - 1 THEN f.event ELSE "none"
    /\ p.data = IF r \in 4..Ends(f) - 1 THEN f ELSE NoFrame

Clean(p) == p.buffer = Blank /\ p.event = "none" /\ p.data = NoFrame

\* What one piece leaves alone, unless it makes the page handle a frame.
Same(p, next) ==
    /\ next.seen = p.seen /\ next.streamDone = p.streamDone /\ next.raw = p.raw
    /\ next.badges = p.badges /\ next.badgeMap = p.badgeMap

\* What handling a frame does.
HandlesFrame(p, f, next) ==
    /\ next.seen = Append(p.seen, f)
    /\ next.streamDone <=> p.streamDone \/ f.event = "done"
    /\ next.raw = IF f.event = "content" THEN p.raw + 1 ELSE p.raw
    /\ f.event = "tool_start" =>
          /\ next.badges = Append(p.badges, [tool |-> f.tool, state |-> "pending"])
          /\ next.badgeMap = [p.badgeMap EXCEPT ![f.tool] = Len(p.badges) + 1]
    /\ f.event = "tool_result" =>
          /\ p.badgeMap[f.tool] # 0 =>
                next.badges = [p.badges EXCEPT ![p.badgeMap[f.tool]].state = "success"]
          /\ next.badgeMap = p.badgeMap
    /\ f.event \notin {"tool_start", "tool_result"} => next.badges = p.badges /\ next.badgeMap = p.badgeMap

\* Text waits for the end of its line.
LEMMA TextWaits ==
    ASSUME NEW p, PageType(p), NEW x \in PieceSet, x # Newline
    PROVE  /\ HandlePiece(p, x) = [p EXCEPT !.buffer = x]
           /\ PageType(HandlePiece(p, x)) /\ Same(p, HandlePiece(p, x))
           /\ HandlePiece(p, x).buffer = x
           /\ HandlePiece(p, x).event = p.event /\ HandlePiece(p, x).data = p.data
<1>1. HandlePiece(p, x) = [p EXCEPT !.buffer = x]
  BY DEF HandlePiece
<1> DEFINE next == [p EXCEPT !.buffer = x]
<1>2. PageType(next) /\ Same(p, next) /\ next.buffer = x /\ next.event = p.event /\ next.data = p.data
  BY DEF PageType, Same
<1> QED
  BY <1>1, <1>2

\* The end of a line of text.
LEMMA TextEnds ==
    ASSUME NEW p, PageType(p), NEW f \in Frame, NEW kind \in {"event", "data", "other"},
           p.buffer = Piece(kind, f)
    PROVE  LET next == HandlePiece(p, Newline) IN
           /\ PageType(next) /\ Same(p, next) /\ next.buffer = Blank
           /\ next.event = IF kind = "event" THEN f.event ELSE p.event
           /\ next.data = IF kind = "data" THEN f ELSE p.data
<1> DEFINE next == HandlePiece(p, Newline)
           here == [p EXCEPT !.buffer = Blank]
<1>1. next = HandleLine(here, Piece(kind, f))
  BY DEF HandlePiece
<1>2. Piece(kind, f).piece = kind /\ Piece(kind, f).of = f
  BY DEF Piece
<1>3. f.event \in Names
  BY FrameKinds DEF Names
<1>4. next = CASE kind = "event" -> [here EXCEPT !.event = f.event]
               [] kind = "data" -> [here EXCEPT !.data = f]
               [] OTHER -> here
  BY <1>1, <1>2 DEF HandleLine
<1>5. PageType(here) /\ Same(p, here) /\ here.buffer = Blank /\ here.event = p.event /\ here.data = p.data
  BY DEF PageType, Same
<1> HIDE DEF next, here
<1>6. CASE kind = "event"
  <2>1. next = [here EXCEPT !.event = f.event]
    BY <1>4, <1>6
  <2> QED
    BY <1>3, <1>5, <1>6, <2>1 DEF PageType, Same, next
<1>7. CASE kind = "data"
  <2>1. next = [here EXCEPT !.data = f]
    BY <1>4, <1>7
  <2> QED
    BY <1>5, <1>7, <2>1 DEF PageType, Same, next
<1>8. CASE kind = "other"
  <2>1. next = here
    BY <1>4, <1>8
  <2> QED
    BY <1>5, <1>8, <2>1 DEF next
<1> QED
  BY <1>6, <1>7, <1>8

\* An empty line outside of an event.
LEMMA BlankSkips ==
    ASSUME NEW p, PageType(p), p.buffer = Blank, p.event = "none"
    PROVE  LET next == HandlePiece(p, Newline) IN PageType(next) /\ Same(p, next) /\ Clean(next)
<1> DEFINE next == HandlePiece(p, Newline)
           here == [p EXCEPT !.buffer = Blank]
<1>1. next = Dispatch(here)
  BY DEF HandlePiece, HandleLine, Blank
<1>2. here.event = "none"
  BY DEF PageType
<1>3. next = [here EXCEPT !.data = NoFrame]
  BY <1>1, <1>2 DEF Dispatch
<1>4. PageType(here) /\ Same(p, here) /\ here.buffer = Blank
  BY DEF PageType, Same
<1> HIDE DEF next, here
<1> QED
  BY <1>2, <1>3, <1>4 DEF PageType, Same, Clean, next

\* What the handlers of the events do.
LEMMA EventsAreHandled ==
    ASSUME NEW p, PageType(p), NEW f \in Frame, p.event = f.event, p.data = f
    PROVE  LET next == Handled(p) IN
           /\ PageType(next) /\ next.buffer = p.buffer /\ next.seen = p.seen
           /\ HandlesFrame(p, f, [next EXCEPT !.seen = Append(@, f)])
<1> DEFINE next == Handled(p)
<1>1. CASE f.event = "content"
  <2>1. next = [p EXCEPT !.raw = @ + 1]
    BY <1>1 DEF Handled
  <2> HIDE DEF next
  <2>2. PageType(next)
    <3>1. p.raw + 1 \in Nat
      BY DEF PageType
    <3>2. \A x \in Nat : PageType([p EXCEPT !.raw = x])
      BY DEF PageType
    <3> QED
      BY <2>1, <3>1, <3>2
  <2>3. HandlesFrame(p, f, [next EXCEPT !.seen = Append(@, f)])
    BY <1>1, <2>1, <2>2 DEF PageType, HandlesFrame
  <2> QED
    BY <2>1, <2>2, <2>3 DEF PageType, next
<1>2. CASE f.event = "done"
  <2>1. next = [p EXCEPT !.streamDone = TRUE]
    BY <1>2 DEF Handled
  <2> HIDE DEF next
  <2> QED
    BY <1>2, <2>1 DEF PageType, HandlesFrame, next
<1>3. CASE f.event = "error"
  <2>1. next = [p EXCEPT !.errors = @ + 1]
    BY <1>3 DEF Handled
  <2> HIDE DEF next
  <2>2. PageType(next)
    <3>1. p.errors + 1 \in Nat
      BY DEF PageType
    <3>2. \A x \in Nat : PageType([p EXCEPT !.errors = x])
      BY DEF PageType
    <3> QED
      BY <2>1, <3>1, <3>2
  <2>3. HandlesFrame(p, f, [next EXCEPT !.seen = Append(@, f)])
    BY <1>3, <2>1, <2>2 DEF PageType, HandlesFrame
  <2> QED
    BY <2>1, <2>2, <2>3 DEF PageType, next
<1>4. CASE f.event = "tool_start"
  <2> DEFINE b == [tool |-> f.tool, state |-> "pending"]
             badges == Append(p.badges, b)
             map == [p.badgeMap EXCEPT ![f.tool] = Len(p.badges) + 1]
  <2>1. f.tool \in Tools
    BY <1>4, FrameKinds
  <2>2. next = [p EXCEPT !.badges = badges, !.badgeMap = map]
    BY <1>4 DEF Handled, OnToolStart, PageType
  <2>3. b \in Badge
    BY <2>1 DEF Badge
  <2>4. /\ badges \in Seq(Badge) /\ Len(badges) = Len(p.badges) + 1
        /\ map \in [Tools -> Nat] /\ \A t \in Tools : map[t] <= Len(badges)
    BY <2>1, <2>3 DEF PageType
  <2> HIDE DEF next, badges, map
  <2>5. next.badges = badges /\ next.badgeMap = map
    BY <2>2 DEF PageType
  <2>6. PageType(next)
    BY <2>2, <2>4 DEF PageType
  <2>7. HandlesFrame(p, f, [next EXCEPT !.seen = Append(@, f)])
    BY <1>4, <2>2, <2>5, <2>6 DEF PageType, HandlesFrame, badges, map
  <2> QED
    BY <2>2, <2>6, <2>7 DEF PageType, next
<1>5. CASE f.event = "tool_result"
  <2> DEFINE k == p.badgeMap[f.tool]
             badges == [p.badges EXCEPT ![k].state = "success"]
  <2>1. f.tool \in Tools /\ k \in Nat /\ k <= Len(p.badges)
    BY <1>5, FrameKinds DEF PageType
  <2>2. next = IF k = 0 THEN p ELSE [p EXCEPT !.badges = badges]
    BY <1>5 DEF Handled, OnToolResult
  <2>3. CASE k = 0
    <3>1. next = p
      BY <2>2, <2>3
    <3> HIDE DEF next
    <3> QED
      BY <1>5, <2>3, <3>1 DEF PageType, HandlesFrame, next
  <2>4. CASE k # 0
    <3>1. badges \in Seq(Badge) /\ Len(badges) = Len(p.badges)
      <4>1. k \in 1..Len(p.badges) /\ p.badges \in Seq(Badge)
        BY <2>1, <2>4 DEF PageType
      <4> HIDE DEF k
      <4>2. p.badges[k] \in Badge
        BY <4>1
      <4>3. [p.badges[k] EXCEPT !.state = "success"] \in Badge
        BY <4>2 DEF Badge
      <4> QED
        BY <4>1, <4>3
    <3>2. next = [p EXCEPT !.badges = badges]
      BY <2>2, <2>4
    <3> HIDE DEF next, badges
    <3>3. PageType(next) /\ next.badges = badges
      BY <3>1, <3>2 DEF PageType
    <3>4. HandlesFrame(p, f, [next EXCEPT !.seen = Append(@, f)])
      BY <1>5, <3>2, <3>3 DEF PageType, HandlesFrame, badges
    <3> QED
      BY <3>2, <3>3, <3>4 DEF PageType, next
  <2> QED
    BY <2>3, <2>4
<1> QED
  BY <1>1, <1>2, <1>3, <1>4, <1>5, FrameKinds

\* The empty line that ends an event.
LEMMA BlankDispatches ==
    ASSUME NEW p, PageType(p), NEW f \in Frame, p.buffer = Blank, p.event = f.event, p.data = f
    PROVE  LET next == HandlePiece(p, Newline) IN
           PageType(next) /\ HandlesFrame(p, f, next) /\ Clean(next)
<1> DEFINE next == HandlePiece(p, Newline)
           here == [p EXCEPT !.buffer = Blank]
           done == Handled(here)
<1>1. next = Dispatch(here)
  BY DEF HandlePiece, HandleLine, Blank
<1>2. PageType(here) /\ here = p
  BY DEF PageType
<1>3. f.event # "none"
  BY FrameKinds
<1>4. next = [done EXCEPT !.event = "none", !.data = NoFrame, !.seen = Append(@, f)]
  BY <1>1, <1>2, <1>3 DEF Dispatch
<1> DEFINE seen == [done EXCEPT !.seen = Append(@, f)]
<1>5. PageType(done) /\ done.buffer = p.buffer /\ HandlesFrame(p, f, seen)
  BY <1>2, EventsAreHandled
<1> HIDE DEF done
<1>6. PageType(seen)
  <2>1. Append(done.seen, f) \in Seq(Frame)
    BY <1>5 DEF PageType
  <2>2. \A x \in Seq(Frame) : PageType([done EXCEPT !.seen = x])
    BY <1>5 DEF PageType
  <2> QED
    BY <2>1, <2>2
<1>7. next = [seen EXCEPT !.event = "none", !.data = NoFrame] /\ seen.buffer = Blank
  BY <1>4, <1>5 DEF PageType
<1> HIDE DEF seen, next
<1>8. /\ next.seen = seen.seen /\ next.streamDone = seen.streamDone /\ next.raw = seen.raw
      /\ next.badges = seen.badges /\ next.badgeMap = seen.badgeMap
  BY <1>6, <1>7 DEF PageType
<1>9. PageType(next) /\ Clean(next)
  BY <1>6, <1>7 DEF PageType, Clean
<1>10. HandlesFrame(p, f, next)
  BY <1>5, <1>8 DEF HandlesFrame
<1> QED
  BY <1>9, <1>10 DEF next

\* Where the pieces of a frame are.
LEMMA Places ==
    ASSUME NEW f \in Frame
    PROVE  /\ Size(f) \in {5, 7, 8} /\ Ends(f) \in {5, 7} /\ Other(f) \in {0, 5, 6}
           /\ Ends(f) <= Size(f)
           /\ Other(f) = 0 => Size(f) = 5 /\ Ends(f) = 5
           /\ Other(f) = 5 => Size(f) = 7 /\ Ends(f) = 7
           /\ Other(f) = 6 => Size(f) = 8 /\ Ends(f) = 5
  BY FrameKinds DEF Size, Ends, Other

\* A page between frames is at the start of the next and at the end of the last.
LEMMA CleanIsStage ==
    ASSUME NEW p, NEW f \in Frame
    PROVE  (Stage(p, f, 0) <=> Clean(p)) /\ (Stage(p, f, Size(f)) <=> Clean(p))
<1>1. /\ 0 \notin 2..Ends(f) - 1 /\ 0 \notin 4..Ends(f) - 1
      /\ Size(f) \notin 2..Ends(f) - 1 /\ Size(f) \notin 4..Ends(f) - 1
      /\ Size(f) # 1 /\ Size(f) # 3 /\ Size(f) # Other(f)
  BY Places
<1> QED
  BY <1>1 DEF Stage, Clean

\* What one piece of a frame does: it takes the page one piece on, and the
\* piece at Ends(f) makes it handle the frame.
LEMMA StageStep ==
    ASSUME NEW f \in Frame, NEW r \in 0..Size(f) - 1, NEW p, PageType(p), Stage(p, f, r)
    PROVE  LET next == HandlePiece(p, Pieces(f)[r + 1]) IN
           /\ PageType(next) /\ Stage(next, f, r + 1)
           /\ IF r + 1 = Ends(f) THEN HandlesFrame(p, f, next) ELSE Same(p, next)
<1> DEFINE x == Pieces(f)[r + 1]
           next == HandlePiece(p, x)
<1>1. r \in 0..7 /\ r + 1 \in 1..Size(f)
  BY Places
<1>2. x = IF r + 1 = 1 THEN Piece("event", f) ELSE IF r + 1 = 3 THEN Piece("data", f)
          ELSE IF r + 1 = Other(f) THEN Piece("other", f) ELSE Newline
  BY <1>1, PiecesAre
<1>3. \A kind \in {"event", "data", "other"} : Piece(kind, f) \in PieceSet /\ Piece(kind, f) # Newline
  BY DEF PieceSet, Piece, Newline
<1> HIDE DEF x
<1>4. ASSUME NEW kind \in {"event", "data", "other"},
             r + 1 = IF kind = "event" THEN 1 ELSE IF kind = "data" THEN 3 ELSE Other(f)
      PROVE  PageType(next) /\ Stage(next, f, r + 1) /\ r + 1 # Ends(f) /\ Same(p, next)
  <2>1. x = Piece(kind, f)
    BY <1>1, <1>2, <1>4, Places
  <2>2. PageType(next) /\ Same(p, next) /\ next.buffer = x /\ next.event = p.event /\ next.data = p.data
    BY <1>3, <2>1, TextWaits
  <2>3. /\ r \in 2..Ends(f) - 1 <=> r + 1 \in 2..Ends(f) - 1
        /\ r \in 4..Ends(f) - 1 <=> r + 1 \in 4..Ends(f) - 1
        /\ r + 1 # Ends(f)
    BY <1>1, <1>4, Places
  <2>4. Stage(next, f, r + 1)
    BY <1>1, <1>4, <2>1, <2>2, <2>3, Places DEF Stage
  <2> QED
    BY <2>2, <2>3, <2>4
<1>5. ASSUME NEW kind \in {"event", "data", "other"},
             r = IF kind = "event" THEN 1 ELSE IF kind = "data" THEN 3 ELSE Other(f), r # 0
      PROVE  PageType(next) /\ Stage(next, f, r + 1) /\ r + 1 # Ends(f) /\ Same(p, next)
  <2>1. x = Newline /\ p.buffer = Piece(kind, f)
    BY <1>1, <1>2, <1>5, Places DEF Stage
  <2>2. /\ PageType(next) /\ Same(p, next) /\ next.buffer = Blank
        /\ next.event = IF kind = "event" THEN f.event ELSE p.event
        /\ next.data = IF kind = "data" THEN f ELSE p.data
    BY <2>1, TextEnds
  <2>3. /\ r + 1 \in 2..Ends(f) - 1 <=> r \in 2..Ends(f) - 1 \/ kind = "event"
        /\ r + 1 \in 4..Ends(f) - 1 <=> r \in 4..Ends(f) - 1 \/ kind = "data"
        /\ r + 1 # Ends(f) /\ r + 1 # 1 /\ r + 1 # 3 /\ r + 1 # Other(f)
    BY <1>1, <1>5, Places
  <2>4. Stage(next, f, r + 1)
    BY <2>2, <2>3 DEF Stage
  <2> QED
    BY <2>2, <2>3, <2>4
<1>6. CASE r \notin {0, 1, 2, 3} /\ r # Other(f) /\ r + 1 # Other(f)
  <2>1. x = Newline /\ p.buffer = Blank
    BY <1>1, <1>2, <1>6 DEF Stage
  <2>2. CASE r + 1 = Ends(f)
    <3>1. r \in 2..Ends(f) - 1 /\ r \in 4..Ends(f) - 1
      BY <1>1, <1>6, <2>2, Places
    <3>2. p.event = f.event /\ p.data = f
      BY <3>1 DEF Stage
    <3>3. PageType(next) /\ HandlesFrame(p, f, next) /\ Clean(next)
      BY <2>1, <3>2, BlankDispatches
    <3>4. /\ r + 1 \notin 2..Ends(f) - 1 /\ r + 1 \notin 4..Ends(f) - 1
          /\ r + 1 # 1 /\ r + 1 # 3
      BY <1>1, <1>6, <2>2
    <3>5. Stage(next, f, r + 1)
      BY <1>6, <3>3, <3>4 DEF Stage, Clean
    <3> QED
      BY <2>2, <3>3, <3>5 DEF x
  <2>3. CASE r + 1 # Ends(f)
    <3>1. r \notin 2..Ends(f) - 1 /\ r + 1 \notin 2..Ends(f) - 1 /\ r + 1 \notin 4..Ends(f) - 1
          /\ r + 1 # 1 /\ r + 1 # 3
      BY <1>1, <1>6, <2>3, Places
    <3>2. p.event = "none"
      BY <3>1 DEF Stage
    <3>3. PageType(next) /\ Same(p, next) /\ Clean(next)
      BY <2>1, <3>2, BlankSkips
    <3>4. Stage(next, f, r + 1)
      BY <1>6, <3>1, <3>3 DEF Stage, Clean
    <3> QED
      BY <2>3, <3>3, <3>4 DEF x
  <2> QED
    BY <2>2, <2>3
<1>7. CASE r \in {0, 2} \/ r + 1 = Other(f)
  <2>1. \E kind \in {"event", "data", "other"} :
           r + 1 = IF kind = "event" THEN 1 ELSE IF kind = "data" THEN 3 ELSE Other(f)
    BY <1>7
  <2> QED
    BY <1>4, <2>1 DEF x
<1>8. CASE r \in {1, 3} \/ (r = Other(f) /\ r # 0)
  <2>1. \E kind \in {"event", "data", "other"} :
           r = IF kind = "event" THEN 1 ELSE IF kind = "data" THEN 3 ELSE Other(f)
    BY <1>8
  <2> QED
    BY <1>5, <1>8, <2>1 DEF x
<1>9. r = Other(f) => r # 0 \/ r \in {0, 2}
  BY <1>1
<1> QED
  BY <1>6, <1>7, <1>8, <1>9 DEF x

-----------------------------------------------------------------------------
(* What the page tells of the frames it has handled.                       *)

Tooling(s) == EventsOf(s, {"tool_start", "tool_result"})

LEMMA EventsGrow ==
    ASSUME NEW s \in Seq(Frame), NEW f \in Frame, NEW kinds
    PROVE  /\ EventsOf(s, kinds) \in Seq(Frame)
           /\ \A k \in DOMAIN EventsOf(s, kinds) : EventsOf(s, kinds)[k].event \in kinds
           /\ EventsOf(Append(s, f), kinds) = IF f.event \in kinds THEN Append(EventsOf(s, kinds), f)
                                              ELSE EventsOf(s, kinds)
<1> DEFINE n == Len(s)
           t == Append(s, f)
           chosen == {i \in DOMAIN s : s[i].event \in kinds}
           more == {i \in DOMAIN t : t[i].event \in kinds}
<1>1. /\ n \in Nat /\ DOMAIN s = 1..n /\ DOMAIN t = 1..n + 1 /\ t[n + 1] = f
      /\ \A i \in 1..n : t[i] = s[i]
  OBVIOUS
<1>2. chosen \in SUBSET (DOMAIN s)
  OBVIOUS
<1>3. more = IF f.event \in kinds THEN chosen \cup {n + 1} ELSE chosen
  <2> HIDE DEF n, t
  <2>1. \A i : i \in 1..n + 1 <=> i \in 1..n \/ i = n + 1
    BY <1>1
  <2>2. n + 1 \notin 1..n
    BY <1>1
  <2> QED
    BY <1>1, <2>1, <2>2
<1>4. EventsOf(s, kinds) = Filtered(s, chosen) /\ EventsOf(t, kinds) = Filtered(t, more)
  BY DEF EventsOf
<1>5. \A i \in chosen : s[i].event \in kinds
  OBVIOUS
<1> HIDE DEF more, chosen
<1>6. /\ Filtered(t, chosen) = Filtered(s, chosen)
      /\ Filtered(t, chosen \cup {n + 1}) = Append(Filtered(s, chosen), f)
  BY <1>2, FilteredGrows
<1>7. /\ Filtered(s, chosen) \in Seq(Frame) /\ Len(Filtered(s, chosen)) = Cardinality(chosen)
      /\ Cardinality(chosen) \in Nat
      /\ \A k \in 1..Cardinality(chosen) :
            Nth(chosen, k) \in chosen /\ Filtered(s, chosen)[k] = s[Nth(chosen, k)]
  BY <1>2, FilteredIs
<1>8. \A k \in DOMAIN Filtered(s, chosen) : Filtered(s, chosen)[k].event \in kinds
  BY <1>5, <1>7
<1> QED
  BY <1>3, <1>4, <1>6, <1>7, <1>8 DEF t

LEMMA EventsOfNone == \A kinds : EventsOf(<<>>, kinds) = <<>>
<1> SUFFICES ASSUME NEW kinds PROVE EventsOf(<<>>, kinds) = <<>>
  OBVIOUS
<1>1. {i \in DOMAIN <<>> : <<>>[i].event \in kinds} = {}
  OBVIOUS
<1>2. Cardinality({}) = 0
  BY FS_EmptySet
<1> QED
  BY <1>1, <1>2 DEF EventsOf, Filtered

BadgesFor(e) ==
    [i \in 1..((Len(e) + 1) \div 2) |->
        [tool  |-> e[2 * i - 1].tool,
         state |-> IF 2 * i <= Len(e) THEN "success" ELSE "pending"]]

LastIs(e, kind) == Len(e) # 0 /\ e[Len(e)].event = kind

\* The badges tell the events e, and the map knows the one that is pending.
BadgesTold(badges, badgeMap, e) ==
    /\ badges = BadgesFor(e)
    /\ Len(e) % 2 = 1 => LastIs(e, "tool_start") /\ badgeMap[e[Len(e)].tool] = (Len(e) + 1) \div 2
    /\ Len(e) # 0 /\ Len(e) % 2 = 0 => LastIs(e, "tool_result")

Told(p) ==
    /\ p.raw = Len(EventsOf(p.seen, {"content"}))
    /\ p.streamDone <=> \E i \in DOMAIN p.seen : p.seen[i].event = "done"
    /\ BadgesTold(p.badges, p.badgeMap, Tooling(p.seen))

\* A frame that the server may write after the frames s.
Follows(s, f) ==
    /\ f.event = "tool_start" => Tooling(s) = <<>> \/ LastIs(Tooling(s), "tool_result")
    /\ f.event = "tool_result" =>
          LastIs(Tooling(s), "tool_start") /\ Tooling(s)[Len(Tooling(s))].tool = f.tool

LEMMA Halves ==
    \A n \in Nat : \E k \in Nat : \/ n = 2 * k /\ n % 2 = 0 /\ (n + 1) \div 2 = k
                                  \/ n = 2 * k + 1 /\ n % 2 = 1 /\ (n + 1) \div 2 = k + 1
<1> TAKE n \in Nat
<1>1. n \div 2 \in Nat /\ (n = 2 * (n \div 2) \/ n = 2 * (n \div 2) + 1)
  OBVIOUS
<1>2. ASSUME NEW k \in Nat, n = 2 * k PROVE n % 2 = 0 /\ (n + 1) \div 2 = k
  BY <1>2
<1>3. ASSUME NEW k \in Nat, n = 2 * k + 1 PROVE n % 2 = 1 /\ (n + 1) \div 2 = k + 1
  BY <1>3
<1> QED
  BY <1>1, <1>2, <1>3

\* A tool starts: its badge is appended and the map points at it.
LEMMA StartTold ==
    ASSUME NEW e \in Seq(Frame), NEW f \in Frame, f.event = "tool_start",
           e = <<>> \/ LastIs(e, "tool_result"),
           NEW badges \in Seq(Badge), NEW badgeMap \in [Tools -> Nat], BadgesTold(badges, badgeMap, e)
    PROVE  BadgesTold(Append(badges, [tool |-> f.tool, state |-> "pending"]),
                      [badgeMap EXCEPT ![f.tool] = Len(badges) + 1], Append(e, f))
<1> DEFINE n == Len(e)
           d == Append(e, f)
           b == [tool |-> f.tool, state |-> "pending"]
           new == Append(badges, b)
<1>0. f.tool \in Tools
  BY FrameKinds
<1>1. /\ n \in Nat /\ Len(d) = n + 1 /\ d[n + 1] = f /\ \A i \in 1..n : d[i] = e[i]
  OBVIOUS
<1>2. n % 2 = 0
  <2>1. n % 2 = 1 => LastIs(e, "tool_start")
    BY DEF BadgesTold
  <2>2. n % 2 \in {0, 1}
    BY <1>1
  <2> QED
    BY <2>1, <2>2 DEF LastIs
<1>3. PICK k \in Nat : n = 2 * k /\ (n + 1) \div 2 = k
  BY <1>1, <1>2, Halves
<1>4. (n + 1) % 2 = 1 /\ (n + 2) \div 2 = k + 1
  BY <1>3
<1>5. badges = BadgesFor(e)
  BY DEF BadgesTold
<1> HIDE DEF n, d
<1>6. Len(badges) = k /\ \A i \in 1..k : badges[i] = [tool |-> e[2 * i - 1].tool, state |-> "success"]
  <2>1. \A i \in 1..k : 2 * i <= n
    BY <1>3
  <2> QED
    BY <1>3, <1>5, <2>1 DEF BadgesFor, n
<1> DEFINE c == BadgesFor(d)
<1>7. /\ DOMAIN c = 1..k + 1
      /\ \A i \in 1..k : c[i] = [tool |-> e[2 * i - 1].tool, state |-> "success"]
      /\ c[k + 1] = b
  <2>1. (Len(d) + 1) \div 2 = k + 1
    BY <1>1, <1>4
  <2>2. \A i \in 1..k : i \in 1..k + 1 /\ 2 * i <= n + 1 /\ 2 * i - 1 \in 1..n
    BY <1>3
  <2>3. k + 1 \in 1..k + 1 /\ ~(2 * (k + 1) <= n + 1) /\ 2 * (k + 1) - 1 = n + 1
    BY <1>3
  <2> QED
    BY <1>1, <2>1, <2>2, <2>3 DEF BadgesFor
<1>8. new = c
  <2>1. b \in Badge
    BY <1>0 DEF Badge
  <2>2. DOMAIN new = 1..k + 1 /\ new[k + 1] = b /\ \A i \in 1..k : new[i] = badges[i]
    BY <1>6, <2>1
  <2>3. new = [i \in 1..k + 1 |-> new[i]] /\ c = [i \in 1..k + 1 |-> c[i]]
    BY <1>7, <2>2 DEF BadgesFor
  <2>4. \A i \in 1..k + 1 : i \in 1..k \/ i = k + 1
    OBVIOUS
  <2> HIDE DEF new, c
  <2>5. \A i \in 1..k + 1 : new[i] = c[i]
    BY <1>6, <1>7, <2>2, <2>4
  <2> QED
    BY ONLY <2>3, <2>5
<1>9. [badgeMap EXCEPT ![f.tool] = Len(badges) + 1][f.tool] = (Len(d) + 1) \div 2
  BY <1>0, <1>1, <1>4, <1>6
<1>10. Len(d) # 0 /\ Len(d) % 2 = 1 /\ d[Len(d)] = f
  BY <1>1, <1>4
<1> HIDE DEF new, c
<1> QED
  BY <1>8, <1>9, <1>10 DEF BadgesTold, LastIs, d, c, new, b

\* A tool returns: the badge that is pending is the one it completes.
LEMMA ResultTold ==
    ASSUME NEW e \in Seq(Frame), NEW f \in Frame, f.event = "tool_result",
           LastIs(e, "tool_start"), e[Len(e)].tool = f.tool,
           NEW badges \in Seq(Badge), NEW badgeMap \in [Tools -> Nat], BadgesTold(badges, badgeMap, e)
    PROVE  /\ badgeMap[f.tool] # 0
           /\ BadgesTold([badges EXCEPT ![badgeMap[f.tool]].state = "success"], badgeMap, Append(e, f))
<1> DEFINE n == Len(e)
           d == Append(e, f)
<1>1. /\ n \in Nat /\ Len(d) = n + 1 /\ d[n + 1] = f /\ \A i \in 1..n : d[i] = e[i]
  OBVIOUS
<1>2. n # 0 /\ n % 2 = 1
  <2>1. n # 0 /\ n % 2 = 0 => LastIs(e, "tool_result")
    BY DEF BadgesTold
  <2>2. n % 2 \in {0, 1} /\ n # 0 /\ e[n].event = "tool_start"
    BY <1>1 DEF LastIs
  <2> QED
    BY <2>1, <2>2 DEF LastIs
<1>3. PICK k \in Nat : n = 2 * k + 1 /\ (n + 1) \div 2 = k + 1
  BY <1>1, <1>2, Halves
<1>4. (n + 1) % 2 = 0 /\ (n + 2) \div 2 = k + 1
  BY <1>3
<1>5. badges = BadgesFor(e) /\ badgeMap[f.tool] = k + 1
  BY <1>2, <1>3 DEF BadgesTold
<1> DEFINE new == [badges EXCEPT ![k + 1].state = "success"]
           c == BadgesFor(d)
           b == [tool |-> f.tool, state |-> "success"]
<1>6. e[n].tool = f.tool
  OBVIOUS
<1> HIDE DEF n, d
<1>7. /\ DOMAIN badges = 1..k + 1
      /\ \A i \in 1..k : badges[i] = [tool |-> e[2 * i - 1].tool, state |-> "success"]
      /\ badges[k + 1] = [tool |-> f.tool, state |-> "pending"]
  <2>1. \A i \in 1..k : i \in 1..k + 1 /\ 2 * i <= n
    BY <1>3
  <2>2. k + 1 \in 1..k + 1 /\ ~(2 * (k + 1) <= n) /\ 2 * (k + 1) - 1 = n
    BY <1>3
  <2> QED
    BY <1>3, <1>5, <1>6, <2>1, <2>2 DEF BadgesFor, n
<1>8. /\ DOMAIN c = 1..k + 1
      /\ \A i \in 1..k : c[i] = [tool |-> e[2 * i - 1].tool, state |-> "success"]
      /\ c[k + 1] = b
  <2>1. (Len(d) + 1) \div 2 = k + 1
    BY <1>1, <1>4
  <2>2. \A i \in 1..k : i \in 1..k + 1 /\ 2 * i <= n + 1 /\ 2 * i - 1 \in 1..n
    BY <1>3
  <2>3. k + 1 \in 1..k + 1 /\ 2 * (k + 1) <= n + 1 /\ 2 * (k + 1) - 1 = n /\ n \in 1..n
    BY <1>3
  <2> QED
    BY <1>1, <1>6, <2>1, <2>2, <2>3 DEF BadgesFor
<1>9. new = c
  <2>1. DOMAIN new = 1..k + 1 /\ new[k + 1] = b /\ \A i \in 1..k : new[i] = badges[i]
    <3>1. k + 1 \in 1..k + 1 /\ \A i \in 1..k : i \in 1..k + 1 /\ i # k + 1
      OBVIOUS
    <3> QED
      BY <1>7, <3>1
  <2>2. new = [i \in 1..k + 1 |-> new[i]] /\ c = [i \in 1..k + 1 |-> c[i]]
    BY <1>7, <1>8, <2>1 DEF BadgesFor
  <2>3. \A i \in 1..k + 1 : i \in 1..k \/ i = k + 1
    OBVIOUS
  <2> HIDE DEF new, c
  <2>4. \A i \in 1..k + 1 : new[i] = c[i]
    BY <1>7, <1>8, <2>1, <2>3
  <2> QED
    BY ONLY <2>2, <2>4
<1>10. Len(d) # 0 /\ Len(d) % 2 = 0 /\ d[Len(d)] = f
  BY <1>1, <1>4
<1>11. [badges EXCEPT ![badgeMap[f.tool]].state = "success"] = new
  BY <1>5
<1>12. k + 1 # 0
  OBVIOUS
<1> HIDE DEF new, c
<1>13. BadgesTold(new, badgeMap, d)
  BY <1>9, <1>10 DEF BadgesTold, LastIs, c
<1> QED
  BY <1>5, <1>11, <1>12, <1>13 DEF d

\* The page that has handled one frame more.
LEMMA ToldStep ==
    ASSUME NEW p, PageType(p), Told(p), NEW f \in Frame, Follows(p.seen, f),
           NEW next, HandlesFrame(p, f, next)
    PROVE  Told(next)
<1> DEFINE s == p.seen
           t == Append(s, f)
<1>1. /\ s \in Seq(Frame) /\ next.seen = t /\ p.raw \in Nat
      /\ p.badges \in Seq(Badge) /\ p.badgeMap \in [Tools -> Nat]
  BY DEF PageType, HandlesFrame
<1>2. /\ Tooling(t) = IF f.event \in {"tool_start", "tool_result"} THEN Append(Tooling(s), f)
                      ELSE Tooling(s)
      /\ Tooling(s) \in Seq(Frame)
  <2> HIDE DEF s
  <2>1. s \in Seq(Frame)
    BY <1>1
  <2>2. \A kinds : /\ EventsOf(s, kinds) \in Seq(Frame)
                   /\ EventsOf(Append(s, f), kinds) = IF f.event \in kinds
                                                      THEN Append(EventsOf(s, kinds), f)
                                                      ELSE EventsOf(s, kinds)
    BY ONLY <2>1, f \in Frame, EventsGrow
  <2> QED
    BY <2>2 DEF Tooling
<1>3. next.raw = Len(EventsOf(t, {"content"}))
  <2> DEFINE some == EventsOf(s, {"content"})
             more == EventsOf(t, {"content"})
  <2>1. p.raw = Len(some) /\ next.raw = IF f.event = "content" THEN p.raw + 1 ELSE p.raw
    BY DEF Told, HandlesFrame
  <2> HIDE DEF s
  <2>2. s \in Seq(Frame)
    BY <1>1
  <2>3. /\ some \in Seq(Frame)
        /\ more = IF f.event \in {"content"} THEN Append(some, f) ELSE some
    BY ONLY <2>2, f \in Frame, EventsGrow
  <2> HIDE DEF some, more
  <2> QED
    BY <2>1, <2>3 DEF more
<1>4. next.streamDone <=> \E i \in DOMAIN t : t[i].event = "done"
  <2>1. p.streamDone <=> \E i \in DOMAIN s : s[i].event = "done"
    BY DEF Told
  <2>2. next.streamDone <=> p.streamDone \/ f.event = "done"
    BY DEF HandlesFrame
  <2>3. Len(s) \in Nat /\ DOMAIN s = 1..Len(s) /\ DOMAIN t = 1..Len(s) + 1
        /\ t[Len(s) + 1] = f /\ \A i \in 1..Len(s) : t[i] = s[i]
    BY <1>1
  <2>4. \A i : i \in 1..Len(s) + 1 <=> i \in 1..Len(s) \/ i = Len(s) + 1
    BY <2>3
  <2> HIDE DEF s, t
  <2> QED
    BY <2>1, <2>2, <2>3, <2>4
<1>5. BadgesTold(p.badges, p.badgeMap, Tooling(s))
  BY DEF Told
<1>6. BadgesTold(next.badges, next.badgeMap, Tooling(t))
  <2> HIDE DEF s, t
  <2>1. CASE f.event = "tool_start"
    <3>1. Tooling(s) = <<>> \/ LastIs(Tooling(s), "tool_result")
      BY <2>1 DEF Follows, s
    <3>2. BadgesTold(Append(p.badges, [tool |-> f.tool, state |-> "pending"]),
                     [p.badgeMap EXCEPT ![f.tool] = Len(p.badges) + 1], Append(Tooling(s), f))
      BY <1>1, <1>2, <1>5, <2>1, <3>1, StartTold
    <3> QED
      BY <1>2, <2>1, <3>2 DEF HandlesFrame
  <2>2. CASE f.event = "tool_result"
    <3>1. LastIs(Tooling(s), "tool_start") /\ Tooling(s)[Len(Tooling(s))].tool = f.tool
      BY <2>2 DEF Follows, s
    <3>2. /\ p.badgeMap[f.tool] # 0
          /\ BadgesTold([p.badges EXCEPT ![p.badgeMap[f.tool]].state = "success"], p.badgeMap,
                        Append(Tooling(s), f))
      BY <1>1, <1>2, <1>5, <2>2, <3>1, ResultTold
    <3> QED
      BY <1>2, <2>2, <3>2 DEF HandlesFrame
  <2>3. CASE f.event \notin {"tool_start", "tool_result"}
    BY <1>2, <1>5, <2>3 DEF HandlesFrame
  <2> QED
    BY <2>1, <2>2, <2>3
<1> QED
  BY <1>1, <1>3, <1>4, <1>6 DEF Told

-----------------------------------------------------------------------------
(* The page between two reads.                                             *)

LEMMA FirstOnes ==
    ASSUME NEW s \in Seq(Frame), NEW m \in 0..Len(s)
    PROVE  /\ SubSeq(s, 1, m) \in Seq(Frame) /\ Len(SubSeq(s, 1, m)) = m
           /\ \A i \in 1..m : SubSeq(s, 1, m)[i] = s[i]
           /\ m = Len(s) => SubSeq(s, 1, m) = s
           /\ m # Len(s) => SubSeq(s, 1, m + 1) = Append(SubSeq(s, 1, m), s[m + 1])
           /\ \A f \in Frame : SubSeq(Append(s, f), 1, m) = SubSeq(s, 1, m)
  OBVIOUS

Alternating(s) == \A m \in 1..Len(s) : Follows(SubSeq(s, 1, m - 1), s[m])

\* The page has read n pieces of the frames s: m frames and a part of the next.
Stands(p, s, off, n, m) ==
    /\ m \in 0..Len(s)
    /\ m = Len(s) => n = off[m] /\ Clean(p) /\ p.seen = s
    /\ m # Len(s) =>
          /\ n - off[m] \in 0..Size(s[m + 1]) - 1
          /\ Stage(p, s[m + 1], n - off[m])
          /\ p.seen = SubSeq(s, 1, IF n - off[m] >= Ends(s[m + 1]) THEN m + 1 ELSE m)

Reading(p, s, off, n) == PageType(p) /\ Told(p) /\ \E m \in Nat : Stands(p, s, off, n, m)

\* One piece more.
LEMMA ReadingStep ==
    ASSUME NEW s \in Seq(Frame), Alternating(s), NEW off, NEW wire, Framed(off, s, wire),
           NEW n \in Nat, n < Len(wire), NEW p, Reading(p, s, off, n)
    PROVE  LET next == HandlePiece(p, wire[n + 1])
           IN  Reading(next, s, off, n + 1) /\ next.raw >= p.raw
<1> DEFINE next == HandlePiece(p, wire[n + 1])
<1>1. PICK m \in Nat : Stands(p, s, off, n, m)
  BY DEF Reading
<1>2. /\ PageType(p) /\ Told(p) /\ p.raw \in Nat
  BY DEF Reading, PageType
<1>3. Len(s) \in Nat /\ m \in 0..Len(s) /\ m # Len(s)
  BY <1>1 DEF Stands, Framed
<1> DEFINE f == s[m + 1]
           r == n - off[m]
<1>4. m + 1 \in 1..Len(s) /\ m + 1 \in 0..Len(s) /\ f \in Frame /\ (m + 1) - 1 = m
  BY <1>3
<1>5. /\ off[m] \in Nat /\ off[m + 1] = off[m] + Size(f)
      /\ \A j \in 1..Size(f) : wire[off[m] + j] = Pieces(f)[j]
  BY <1>3, <1>4 DEF Framed
<1>6. /\ r \in 0..Size(f) - 1 /\ Stage(p, f, r)
      /\ p.seen = SubSeq(s, 1, IF r >= Ends(f) THEN m + 1 ELSE m)
  BY <1>1, <1>3 DEF Stands
<1> HIDE DEF f
<1>7. Size(f) \in 5..8 /\ Ends(f) \in 1..Size(f)
  BY <1>4, Places
<1>8. wire[n + 1] = Pieces(f)[r + 1]
  <2>1. r + 1 \in 1..Size(f) /\ off[m] + (r + 1) = n + 1
    <3> DEFINE o == off[m]
               k == Size(f)
    <3>1. o \in Nat /\ k \in Nat /\ r = n - o
      BY <1>5, <1>7
    <3>2. r \in 0..k - 1
      BY <1>6
    <3> HIDE DEF o, k, r
    <3>3. r + 1 \in 1..k /\ o + (r + 1) = n + 1
      BY <3>1, <3>2
    <3> QED
      BY <3>3 DEF o, k
  <2> HIDE DEF r
  <2>2. wire[off[m] + (r + 1)] = Pieces(f)[r + 1]
    BY <1>5, <2>1
  <2> QED
    BY <2>1, <2>2
<1>9. (n + 1) - off[m] = r + 1 /\ r \in Nat
  BY <1>5, <1>6
<1> HIDE DEF r
<1>10. /\ PageType(next) /\ Stage(next, f, r + 1)
       /\ r + 1 = Ends(f) => HandlesFrame(p, f, next)
       /\ r + 1 # Ends(f) => Same(p, next)
  BY <1>2, <1>4, <1>6, <1>8, StageStep
<1> HIDE DEF next
<1>11. Told(next) /\ next.raw >= p.raw
  <2>1. CASE r + 1 = Ends(f)
    <3>1. p.seen = SubSeq(s, 1, m)
      BY <1>6, <1>7, <1>9, <2>1
    <3>2. Follows(p.seen, f)
      BY <1>4, <3>1 DEF Alternating, f
    <3>3. HandlesFrame(p, f, next)
      BY <1>10, <2>1
    <3>4. Told(next)
      BY <1>2, <1>4, <3>2, <3>3, ToldStep
    <3>5. next.raw >= p.raw
      BY <1>2, <3>3 DEF HandlesFrame
    <3> QED
      BY <3>4, <3>5
  <2>2. CASE r + 1 # Ends(f)
    <3>1. Same(p, next)
      BY <1>10, <2>2
    <3>2. Told(next)
      BY <1>2, <3>1 DEF Told, Same
    <3> QED
      BY <1>2, <3>1, <3>2 DEF Same
  <2> QED
    BY <2>1, <2>2
<1>12. next.seen = SubSeq(s, 1, IF r + 1 >= Ends(f) THEN m + 1 ELSE m)
  <2>1. SubSeq(s, 1, m + 1) = Append(SubSeq(s, 1, m), f)
    BY <1>3, FirstOnes DEF f
  <2>2. CASE r + 1 = Ends(f)
    <3>1. r + 1 >= Ends(f) /\ ~(r >= Ends(f))
      BY <1>7, <1>9, <2>2
    <3> QED
      BY <1>6, <1>10, <2>1, <2>2, <3>1 DEF HandlesFrame
  <2>3. CASE r + 1 # Ends(f)
    <3>1. r + 1 >= Ends(f) <=> r >= Ends(f)
      BY <1>7, <1>9, <2>3
    <3> QED
      BY <1>6, <1>10, <2>3, <3>1 DEF Same
  <2> QED
    BY <2>2, <2>3
<1>13. CASE r + 1 < Size(f)
  <2>1. r + 1 \in 0..Size(f) - 1
    BY <1>7, <1>9, <1>13
  <2>2. Stands(next, s, off, n + 1, m)
    BY <1>3, <1>9, <1>10, <1>12, <2>1 DEF Stands, f
  <2> QED
    BY <1>10, <1>11, <2>2 DEF Reading, next
<1>14. CASE ~(r + 1 < Size(f))
  <2>1. r + 1 = Size(f) /\ n + 1 = off[m + 1] /\ r + 1 >= Ends(f)
    <3> DEFINE o == off[m]
               k == Size(f)
    <3>1. /\ o \in Nat /\ k \in Nat /\ r \in 0..k - 1 /\ (n + 1) - o = r + 1 /\ ~(r + 1 < k)
          /\ off[m + 1] = o + k /\ Ends(f) \in 1..k
      BY <1>5, <1>6, <1>7, <1>9, <1>14
    <3> HIDE DEF o, k
    <3>2. r + 1 = k /\ n + 1 = o + k /\ r + 1 >= Ends(f)
      BY <3>1
    <3> QED
      BY <3>1, <3>2 DEF k
  <2>2. Clean(next)
    BY <1>4, <1>10, <2>1, CleanIsStage
  <2>3. next.seen = SubSeq(s, 1, m + 1)
    BY <1>12, <2>1
  <2>4. CASE m + 1 = Len(s)
    <3>1. next.seen = s
      BY <1>4, <2>3, <2>4, FirstOnes
    <3>2. Stands(next, s, off, n + 1, m + 1)
      BY <1>4, <2>1, <2>2, <2>4, <3>1 DEF Stands
    <3> QED
      BY <1>10, <1>11, <3>2 DEF Reading, next
  <2>5. CASE m + 1 # Len(s)
    <3> DEFINE g == s[(m + 1) + 1]
    <3>1. g \in Frame
      BY <1>3, <1>4, <2>5
    <3> HIDE DEF g
    <3>2. Size(g) \in 5..8 /\ Ends(g) \in 1..Size(g)
      BY <3>1, Places
    <3>3. (n + 1) - off[m + 1] = 0 /\ 0 \in 0..Size(g) - 1 /\ ~(0 >= Ends(g))
      BY <2>1, <3>2
    <3>4. Stage(next, g, 0)
      BY <2>2, <3>1, CleanIsStage
    <3>5. Stands(next, s, off, n + 1, m + 1)
      BY <1>4, <2>3, <2>5, <3>3, <3>4 DEF Stands, g
    <3> QED
      BY <1>10, <1>11, <3>5 DEF Reading, next
  <2> QED
    BY <2>4, <2>5
<1> QED
  BY <1>13, <1>14

\* One chunk more.
LEMMA ReadingChunk ==
    ASSUME NEW s \in Seq(Frame), Alternating(s), NEW off, NEW wire, Framed(off, s, wire),
           NEW n \in Nat, NEW to \in n..Len(wire), NEW p, Reading(p, s, off, n)
    PROVE  LET next == FoldLeft(HandlePiece, p, SubSeq(wire, n + 1, to))
           IN  Reading(next, s, off, to) /\ next.raw >= p.raw
<1> DEFINE l == to - n
           chunk == SubSeq(wire, n + 1, to)
<1>1. wire \in Seq(PieceSet) /\ Len(wire) \in Nat
  BY DEF Framed
<1>2. l \in Nat /\ n + l = to /\ to \in Nat /\ to <= Len(wire)
  BY <1>1
<1>3. DOMAIN chunk = 1..l /\ \A i \in 1..l : chunk[i] = wire[n + i]
  BY <1>1, <1>2
<1> HIDE DEF chunk, l
<1>4. PICK q : Runs(q, p, chunk, l)
  BY <1>2, <1>3, ChunkRuns
<1> DEFINE Good(i) == Reading(q[i], s, off, n + i) /\ q[i].raw >= p.raw
           T == {i \in Nat : i \in 0..l /\ ~Good(i)}
<1>5. Good(0)
  <2>1. q[0] = p /\ n + 0 = n /\ p.raw \in Nat
    BY <1>4 DEF Runs, Reading, PageType
  <2> QED
    BY <2>1
<1>6. ASSUME NEW i \in Nat, i \in 0..l, i # 0, Good(i - 1) PROVE Good(i)
  <2>1. i \in 1..l /\ n + (i - 1) \in Nat /\ n + (i - 1) < Len(wire) /\ (n + (i - 1)) + 1 = n + i
    BY <1>1, <1>2, <1>6
  <2>2. q[i] = HandlePiece(q[i - 1], wire[n + i])
    BY <1>3, <1>4, <2>1 DEF Runs
  <2>3. Reading(q[i], s, off, n + i) /\ q[i].raw >= q[i - 1].raw
    BY <1>6, <2>1, <2>2, ReadingStep
  <2>4. q[i].raw \in Nat /\ q[i - 1].raw \in Nat /\ p.raw \in Nat
    BY <1>6, <2>3 DEF Reading, PageType
  <2> QED
    BY <1>6, <2>3, <2>4
<1> HIDE DEF Good
<1>7. T = {}
  <2> SUFFICES ASSUME T # {} PROVE FALSE
    OBVIOUS
  <2>1. PICK i \in T : \A j \in T : i <= j
    <3>1. T \in SUBSET Nat
      OBVIOUS
    <3> HIDE DEF T
    <3> QED
      BY <3>1, LeastNumber
  <2>2. i \in Nat /\ i \in 0..l /\ ~Good(i) /\ i # 0
    BY <1>5, <2>1
  <2>3. i - 1 \in Nat /\ i - 1 \in 0..l /\ ~(i <= i - 1)
    BY <1>2, <2>2
  <2>4. Good(i - 1)
    BY <2>1, <2>3
  <2> QED
    BY <1>6, <2>2, <2>4
<1>8. Good(l)
  <2>1. l \in Nat /\ l \in 0..l
    BY <1>2
  <2> QED
    BY <1>7, <2>1
<1> QED
  BY <1>2, <1>4, <1>8 DEF Good, Runs, chunk

\* What was read is what was written, in order, each frame once.
LEMMA ReadingSays ==
    ASSUME NEW s \in Seq(Frame), NEW off, NEW wire, Framed(off, s, wire),
           NEW n \in Nat, NEW p, Reading(p, s, off, n)
    PROVE  /\ n <= Len(wire) /\ Len(wire) \in Nat
           /\ \E k \in 0..Len(s) : p.seen = SubSeq(s, 1, k)
           /\ n = Len(wire) => p.seen = s
<1>1. PICK m \in Nat : Stands(p, s, off, n, m)
  BY DEF Reading
<1>2. /\ Len(s) \in Nat /\ m \in 0..Len(s) /\ off[m] \in Nat /\ off[m] <= Len(wire)
      /\ Len(wire) \in Nat
  BY <1>1 DEF Stands, Framed
<1>3. CASE m = Len(s)
  <2>1. n = off[m] /\ p.seen = s
    BY <1>1, <1>3 DEF Stands
  <2>2. SubSeq(s, 1, m) = s
    BY <1>2, <1>3, FirstOnes
  <2> QED
    BY <1>2, <2>1, <2>2
<1>4. CASE m # Len(s)
  <2> DEFINE f == s[m + 1]
             k == Size(f)
             o == off[m]
  <2>1. m + 1 \in 1..Len(s) /\ m + 1 \in 0..Len(s) /\ f \in Frame /\ (m + 1) - 1 = m
    BY <1>2, <1>4
  <2>2. off[m + 1] = o + k /\ off[m + 1] <= Len(wire)
    BY <2>1 DEF Framed
  <2>3. n - o \in 0..k - 1 /\ p.seen = SubSeq(s, 1, IF n - o >= Ends(f) THEN m + 1 ELSE m)
    BY <1>1, <1>4 DEF Stands
  <2>4. k \in Nat
    BY <2>1, Places
  <2> HIDE DEF f, k
  <2>5. n < Len(wire)
    <3>1. o \in Nat /\ o + k <= Len(wire) /\ n - o \in 0..k - 1
      BY <1>2, <2>2, <2>3
    <3> HIDE DEF o
    <3> QED
      BY <1>2, <2>4, <3>1
  <2> QED
    BY <1>2, <2>1, <2>3, <2>5
<1> QED
  BY <1>3, <1>4

\* Another frame is written while the page reads.
LEMMA ReadingGrows ==
    ASSUME NEW s \in Seq(Frame), NEW f \in Frame, NEW off, off \in [0..Len(s) -> Nat], NEW more,
           \A m \in 0..Len(s) : more[m] = off[m],
           NEW n \in Nat, NEW p, Reading(p, s, off, n)
    PROVE  Reading(p, Append(s, f), more, n)
<1> DEFINE t == Append(s, f)
<1>1. PICK m \in Nat : Stands(p, s, off, n, m)
  BY DEF Reading
<1>2. /\ Len(s) \in Nat /\ Len(t) = Len(s) + 1 /\ t[Len(s) + 1] = f
      /\ \A i \in 1..Len(s) : t[i] = s[i]
      /\ \A i \in 0..Len(s) : SubSeq(t, 1, i) = SubSeq(s, 1, i)
  BY FirstOnes
<1>3. m \in 0..Len(s) /\ more[m] = off[m] /\ off[m] \in Nat /\ m \in 0..Len(t) /\ m # Len(t)
  BY <1>1, <1>2 DEF Stands
<1> HIDE DEF t
<1>4. CASE m = Len(s)
  <2>1. n = off[m] /\ Clean(p) /\ p.seen = s
    BY <1>1, <1>4 DEF Stands
  <2>2. n - more[m] = 0
    BY <1>3, <2>1
  <2>3. Stage(p, f, 0)
    BY <2>1, CleanIsStage
  <2>4. Size(f) \in 5..8 /\ Ends(f) \in 5..7 /\ 0 \in 0..Size(f) - 1 /\ ~(0 >= Ends(f))
    BY Places
  <2>5. p.seen = SubSeq(t, 1, m)
    BY <1>2, <1>4, <2>1, FirstOnes
  <2>6. Stands(p, t, more, n, m)
    BY <1>2, <1>3, <1>4, <2>2, <2>3, <2>4, <2>5 DEF Stands
  <2> QED
    BY <2>6 DEF Reading, t
<1>5. CASE m # Len(s)
  <2>1. m + 1 \in 1..Len(s) /\ m + 1 \in 0..Len(s)
    BY <1>2, <1>3, <1>5
  <2>2. t[m + 1] = s[m + 1]
    BY <1>2, <2>1
  <2>3. Stands(p, t, more, n, m)
    BY <1>1, <1>2, <1>3, <1>5, <2>1, <2>2 DEF Stands
  <2> QED
    BY <2>3 DEF Reading, t
<1> QED
  BY <1>4, <1>5

\* A new page has read nothing.
LEMMA NewPageReads ==
    /\ PageType(NewPage) /\ NewPage.seen = <<>> /\ NewPage.raw = 0
    /\ \A off : off[0] = 0 => Reading(NewPage, <<>>, off, 0)
<1>1. PageType(NewPage)
  <2>1. <<>> \in Seq(Badge) /\ <<>> \in Seq(Frame) /\ Len(<<>>) = 0
    OBVIOUS
  <2>2. [t \in Tools |-> 0] \in [Tools -> Nat]
    OBVIOUS
  <2> QED
    BY <2>1, <2>2 DEF PageType, NewPage
<1>2. NewPage.seen = <<>> /\ NewPage.raw = 0
  BY DEF NewPage
<1>3. Told(NewPage)
  <2>1. BadgesTold(<<>>, NewPage.badgeMap, <<>>)
    <3>1. BadgesFor(<<>>) = <<>>
      BY DEF BadgesFor
    <3>2. Len(<<>>) = 0 /\ 0 % 2 = 0
      OBVIOUS
    <3> QED
      BY <3>1, <3>2 DEF BadgesTold
  <2>2. NewPage.badges = <<>> /\ ~NewPage.streamDone
    BY DEF NewPage
  <2> QED
    BY <1>2, <2>1, <2>2, EventsOfNone DEF Told, Tooling
<1>4. ASSUME NEW off, off[0] = 0 PROVE Stands(NewPage, <<>>, off, 0, 0)
  BY <1>2, <1>4 DEF Stands, Clean, NewPage
<1> QED
  BY <1>1, <1>2, <1>3, <1>4 DEF Reading

\* The error line of a broken connection.
LEMMA ReadingFails ==
    ASSUME NEW s, NEW off, NEW n, NEW p, Reading(p, s, off, n)
    PROVE  LET next == [p EXCEPT !.errors = @ + 1]
           IN  Reading(next, s, off, n) /\ next.raw = p.raw /\ next.seen = p.seen
<1> DEFINE next == [p EXCEPT !.errors = @ + 1]
<1>1. PICK m \in Nat : Stands(p, s, off, n, m)
  BY DEF Reading
<1>2. PageType(p) /\ Told(p)
  BY DEF Reading
<1>3. PageType(next)
  <2>1. p.errors + 1 \in Nat
    BY <1>2 DEF PageType
  <2>2. \A x \in Nat : PageType([p EXCEPT !.errors = x])
    BY <1>2 DEF PageType
  <2> QED
    BY <2>1, <2>2
<1>4. Same(p, next) /\ next.buffer = p.buffer /\ next.event = p.event /\ next.data = p.data
  BY <1>2 DEF PageType, Same
<1> HIDE DEF next
<1>5. Told(next)
  BY <1>2, <1>4 DEF Told, Same
<1>6. Stands(next, s, off, n, m)
  BY <1>1, <1>4 DEF Stands, Same, Clean, Stage
<1> QED
  BY <1>3, <1>4, <1>5, <1>6 DEF Reading, Same, next

-----------------------------------------------------------------------------
(* What the server writes.                                                 *)

\* The frames s of a request whose stream is st.
Protocol(st, s) ==
    /\ Len(s) <= MaxEvents + 2
    /\ st = "none" => s = <<>>
    /\ st = "open" => /\ Len(s) <= MaxEvents + 1
                      /\ Tooling(s) = <<>> \/ LastIs(Tooling(s), "tool_result")
    /\ st = "tool" => Len(s) <= MaxEvents /\ LastIs(Tooling(s), "tool_start")
    /\ \A i \in DOMAIN s : s[i].event = "done" => i = Len(s) /\ st = "done"

\* The result carries the name of the tool that was started last.
LEMMA LastToolIs ==
    ASSUME NEW s \in Seq(Frame), LastIs(Tooling(s), "tool_start")
    PROVE  LastTool(s) = Tooling(s)[Len(Tooling(s))].tool /\ LastTool(s) \in Tools
<1> DEFINE chosen == {i \in DOMAIN s : s[i].event \in {"tool_start", "tool_result"}}
           e == Filtered(s, chosen)
           n == Cardinality(chosen)
           last == Nth(chosen, n)
<1>1. Tooling(s) = e
  BY DEF Tooling, EventsOf
<1>2. chosen \in SUBSET (DOMAIN s) /\ \A i \in DOMAIN s : i \in Int
  OBVIOUS
<1>3. \A i \in DOMAIN s : s[i].event = "tool_start" => i \in chosen
  OBVIOUS
<1> HIDE DEF chosen
<1>4. /\ Len(e) = n /\ n \in Nat
      /\ \A k \in 1..n : Nth(chosen, k) \in chosen /\ e[k] = s[Nth(chosen, k)]
      /\ \A k, l \in 1..n : k < l => Nth(chosen, k) < Nth(chosen, l)
      /\ \A i \in chosen : \E k \in 1..n : Nth(chosen, k) = i
  BY <1>2, FilteredIs
<1> HIDE DEF e, n
<1>5. n \in 1..n
  BY <1>1, <1>4 DEF LastIs
<1>6. last \in DOMAIN s /\ s[last] = e[n] /\ s[last].event = "tool_start" /\ last \in Int
  BY <1>1, <1>2, <1>4, <1>5 DEF LastIs
<1>7. \A i \in chosen : i <= last
  <2> TAKE i \in chosen
  <2>1. PICK k \in 1..n : Nth(chosen, k) = i
    BY <1>4
  <2>2. k = n \/ k < n
    BY <1>4
  <2>3. i = last \/ i < last
    BY <1>4, <1>5, <2>1, <2>2
  <2>4. i \in Int
    BY <1>2
  <2> HIDE DEF last
  <2> QED
    BY <1>6, <2>3, <2>4
<1> HIDE DEF last
<1> DEFINE IsLast(i) == /\ s[i].event = "tool_start"
                        /\ \A j \in DOMAIN s : s[j].event = "tool_start" => j <= i
<1>8. IsLast(last)
  BY <1>3, <1>6, <1>7
<1>9. \A i \in DOMAIN s : IsLast(i) => i = last
  <2> TAKE i \in DOMAIN s
  <2>1. IsLast(i) => i <= last /\ last <= i
    BY <1>6, <1>8
  <2> HIDE DEF IsLast
  <2> QED
    BY <1>2, <1>6, <2>1
<1>10. (CHOOSE i \in DOMAIN s : IsLast(i)) = last
  <2> HIDE DEF IsLast
  <2> QED
    BY <1>6, <1>8, <1>9
<1>11. LastTool(s) = s[last].tool
  BY <1>10 DEF LastTool
<1>12. s[last].tool \in Tools
  BY <1>6, FrameKinds
<1> QED
  BY <1>1, <1>4, <1>6, <1>11, <1>12

\* The frames that may come next, and the stream they leave.
LEMMA ProtocolMoves ==
    ASSUME NEW s \in Seq(Frame)
    PROVE  /\ Protocol("none", s) => Protocol("open", s)
           /\ Protocol("tool", s) => Protocol("cut", s)
           /\ \A f \in Frame :
                 /\ Protocol("open", s) /\ Len(s) < MaxEvents /\ f.event = "content"
                       => Follows(s, f) /\ Protocol("open", Append(s, f))
                 /\ Protocol("open", s) /\ Len(s) < MaxEvents /\ f.event = "tool_start"
                       => Follows(s, f) /\ Protocol("tool", Append(s, f))
                 /\ Protocol("tool", s) /\ f.event = "tool_result" /\ f.tool = LastTool(s)
                       => Follows(s, f) /\ Protocol("open", Append(s, f))
                 /\ Protocol("open", s) /\ f.event \in {"done", "error"}
                       => Follows(s, f) /\ Protocol(f.event, Append(s, f))
<1>1. Protocol("none", s) => Protocol("open", s)
  BY EventsOfNone DEF Protocol, Tooling
<1>2. Protocol("tool", s) => Protocol("cut", s)
  BY DEF Protocol
<1>3. ASSUME NEW f \in Frame
      PROVE  /\ Len(Append(s, f)) = Len(s) + 1 /\ Len(s) \in Nat
             /\ Tooling(Append(s, f)) = IF f.event \in {"tool_start", "tool_result"}
                                        THEN Append(Tooling(s), f) ELSE Tooling(s)
             /\ LastIs(Append(Tooling(s), f), f.event)
  <2>1. Tooling(s) \in Seq(Frame)
    BY EventsGrow DEF Tooling
  <2>2. Tooling(Append(s, f)) = IF f.event \in {"tool_start", "tool_result"}
                                THEN Append(Tooling(s), f) ELSE Tooling(s)
    BY EventsGrow DEF Tooling
  <2>3. LastIs(Append(Tooling(s), f), f.event)
    BY <2>1 DEF LastIs
  <2> QED
    BY <2>2, <2>3
<1>4. ASSUME NEW st, st # "done", Protocol(st, s), NEW f \in Frame, NEW i \in DOMAIN Append(s, f),
             Append(s, f)[i].event = "done"
      PROVE  i = Len(Append(s, f)) /\ f.event = "done"
  <2>1. i \in 1..Len(s) \/ i = Len(s) + 1
    BY <1>3
  <2>2. i \notin 1..Len(s)
    BY <1>4 DEF Protocol
  <2> QED
    BY <2>1, <2>2, <1>4
<1>5. ASSUME Protocol("open", s), Len(s) < MaxEvents, NEW f \in Frame, f.event = "content"
      PROVE  Follows(s, f) /\ Protocol("open", Append(s, f))
  BY <1>3, <1>4, <1>5 DEF Protocol, Follows
<1>6. ASSUME Protocol("open", s), Len(s) < MaxEvents, NEW f \in Frame, f.event = "tool_start"
      PROVE  Follows(s, f) /\ Protocol("tool", Append(s, f))
  <2>1. LastIs(Tooling(Append(s, f)), "tool_start")
    BY <1>3, <1>6
  <2>2. Follows(s, f)
    BY <1>6 DEF Protocol, Follows
  <2> QED
    BY <1>3, <1>4, <1>6, <2>1, <2>2 DEF Protocol
<1>7. ASSUME Protocol("tool", s), NEW f \in Frame, f.event = "tool_result", f.tool = LastTool(s)
      PROVE  Follows(s, f) /\ Protocol("open", Append(s, f))
  <2>1. LastIs(Tooling(Append(s, f)), "tool_result")
    BY <1>3, <1>7
  <2>2. LastIs(Tooling(s), "tool_start")
    BY <1>7 DEF Protocol
  <2>3. Follows(s, f)
    BY <1>7, <2>2, LastToolIs DEF Follows
  <2> QED
    BY <1>3, <1>4, <1>7, <2>1, <2>3 DEF Protocol
<1>8. ASSUME Protocol("open", s), NEW f \in Frame, f.event \in {"done", "error"}
      PROVE  Follows(s, f) /\ Protocol(f.event, Append(s, f))
  BY <1>3, <1>4, <1>8 DEF Protocol, Follows
<1> QED
  BY <1>1, <1>2, <1>5, <1>6, <1>7, <1>8

LEMMA AlternatingGrows ==
    ASSUME NEW s \in Seq(Frame), Alternating(s), NEW f \in Frame, Follows(s, f)
    PROVE  Alternating(Append(s, f))
<1> DEFINE t == Append(s, f)
<1>1. /\ Len(s) \in Nat /\ Len(t) = Len(s) + 1 /\ t[Len(s) + 1] = f
      /\ \A i \in 1..Len(s) : t[i] = s[i]
      /\ \A i \in 0..Len(s) : SubSeq(t, 1, i) = SubSeq(s, 1, i)
      /\ SubSeq(s, 1, Len(s)) = s
  BY FirstOnes
<1> HIDE DEF t
<1>2. ASSUME NEW m \in 1..Len(t) PROVE Follows(SubSeq(t, 1, m - 1), t[m])
  <2>1. CASE m = Len(s) + 1
    <3>1. m - 1 = Len(s) /\ Len(s) \in 0..Len(s)
      BY <1>1, <2>1
    <3> QED
      BY <1>1, <2>1, <3>1
  <2>2. CASE m # Len(s) + 1
    <3>1. m \in 1..Len(s) /\ m - 1 \in 0..Len(s)
      BY <1>1, <2>2
    <3> QED
      BY <1>1, <3>1 DEF Alternating
  <2> QED
    BY <2>1, <2>2
<1> QED
  BY <1>2 DEF Alternating, t

-----------------------------------------------------------------------------
(* The invariant of page and server.                                       *)

Streams == {"none", "open", "tool", "done", "error", "cut"}

PageTypes ==
    /\ stream \in [Sends -> Streams] /\ asks \in [Sends -> 0..MaxAsks]
    /\ broken \in [Sends -> BOOLEAN] /\ current \in 0..MaxSends
    /\ sent \in Seq(Frame) /\ read \in Nat
    /\ isStreaming \in BOOLEAN /\ renderTimer \in BOOLEAN

\* No more text is shown than came.
Counts(some, all) == all \in Nat /\ some \in 0..all

LEMMA CountsAll == ASSUME NEW n \in Nat PROVE Counts(n, n) /\ Counts(0, n)
  BY DEF Counts

LEMMA CountsMore ==
    ASSUME NEW x, NEW n, NEW m \in Nat, Counts(x, n), m >= n
    PROVE  Counts(x, m)
  BY DEF Counts

\* A request that was not sent has no stream, and its connection is whole.
NotSentYet == \A c \in Sends : c > current => stream[c] = "none" /\ ~broken[c]

\* What lies on the connection is what the stream of the request allows.
Written ==
    /\ Alternating(sent) /\ Len(sent) <= MaxEvents + 2
    /\ current = 0 => sent = <<>>
    /\ current # 0 /\ ~broken[current] => Protocol(stream[current], sent)

\* The page is somewhere in what was written.
Converses(p, s, n) ==
    \E off : Framed(off, s, WireOf(s)) /\ Reading(p, s, off, n)

\* The input is locked as long as frames may come, and no longer than that.
Locked ==
    /\ isStreaming => current # 0 /\ ~broken[current]
    /\ ~isStreaming /\ current # 0 /\ ~broken[current] =>
          page.seen = sent /\ stream[current] \in {"done", "error"}

Rendered ==
    /\ shown = page.raw \/ renderTimer
    /\ ~isStreaming => shown = page.raw /\ ~renderTimer

PageInv ==
    /\ PageTypes /\ NotSentYet /\ Written /\ Locked /\ Rendered /\ TurnsKept
    /\ Counts(shown, page.raw) /\ Converses(page, sent, read)

LEMMA WireIs == Wire = WireOf(sent)
  BY DEF Wire, WireOf

LEMMA ConversesGrows ==
    ASSUME NEW s \in Seq(Frame), NEW f \in Frame, NEW n \in Nat, NEW p, Converses(p, s, n)
    PROVE  Converses(p, Append(s, f), n)
<1>1. PICK off : Framed(off, s, WireOf(s)) /\ Reading(p, s, off, n)
  BY DEF Converses
<1> DEFINE next == WireOf(Append(s, f))
<1>2. NextWire(s, f, WireOf(s), next)
  BY WireGrows DEF NextWire
<1> HIDE DEF next
<1>3. PICK more : FramedMore(more, off, s, f, next)
  BY <1>1, <1>2, FramedGrows
<1>4. off \in [0..Len(s) -> Nat]
  BY <1>1 DEF Framed
<1>5. Reading(p, Append(s, f), more, n)
  BY <1>1, <1>3, <1>4, ReadingGrows DEF FramedMore
<1> QED
  BY <1>3, <1>5 DEF Converses, next, FramedMore

LEMMA ConversesNew == Converses(NewPage, <<>>, 0)
<1> DEFINE off == [m \in 0..0 |-> 0]
<1>1. WireOf(<<>>) = <<>>
  BY DEF WireOf, FlattenSeq
<1>2. /\ off \in [0..Len(<<>>) -> Nat] /\ off[0] = 0 /\ off[Len(<<>>)] = 0
  OBVIOUS
<1>3. <<>> \in Seq(PieceSet) /\ Len(<<>>) = 0 /\ \A m \in 0..Len(<<>>) : off[m] <= Len(<<>>)
  OBVIOUS
<1>4. 1..Len(<<>>) = {}
  OBVIOUS
<1> HIDE DEF off
<1>5. Framed(off, <<>>, <<>>)
  BY <1>2, <1>3, <1>4 DEF Framed
<1>6. Reading(NewPage, <<>>, off, 0)
  BY <1>2, NewPageReads
<1> QED
  BY <1>1, <1>5, <1>6 DEF Converses

\* What the page has seen of what was written.
LEMMA ConversesSays ==
    ASSUME NEW s \in Seq(Frame), NEW n \in Nat, NEW p, Converses(p, s, n)
    PROVE  /\ PageType(p) /\ Told(p) /\ n \in 0..Len(WireOf(s)) /\ p.raw \in Nat
           /\ \E k \in 0..Len(s) : p.seen = SubSeq(s, 1, k)
           /\ n = Len(WireOf(s)) => p.seen = s
<1>1. PICK off : Framed(off, s, WireOf(s)) /\ Reading(p, s, off, n)
  BY DEF Converses
<1> DEFINE wire == WireOf(s)
<1>2. Framed(off, s, wire) /\ Reading(p, s, off, n)
  BY <1>1
<1> HIDE DEF wire
<1>3. /\ n <= Len(wire) /\ Len(wire) \in Nat
      /\ \E k \in 0..Len(s) : p.seen = SubSeq(s, 1, k)
      /\ n = Len(wire) => p.seen = s
  BY <1>2, ReadingSays
<1>4. PageType(p) /\ Told(p) /\ p.raw \in Nat
  BY <1>2 DEF Reading, PageType
<1> QED
  BY <1>3, <1>4 DEF wire

LEMMA ConversesChunk ==
    ASSUME NEW s \in Seq(Frame), Alternating(s), NEW n \in Nat, NEW p, Converses(p, s, n),
           NEW to \in n..Len(WireOf(s))
    PROVE  LET next == FoldLeft(HandlePiece, p, SubSeq(WireOf(s), n + 1, to))
           IN  Converses(next, s, to) /\ next.raw >= p.raw
<1>1. PICK off : Framed(off, s, WireOf(s)) /\ Reading(p, s, off, n)
  BY DEF Converses
<1> DEFINE wire == WireOf(s)
           next == FoldLeft(HandlePiece, p, SubSeq(wire, n + 1, to))
<1>2. Framed(off, s, wire) /\ Reading(p, s, off, n) /\ to \in n..Len(wire)
  BY <1>1
<1> HIDE DEF wire
<1>3. Reading(next, s, off, to) /\ next.raw >= p.raw
  BY <1>2, ReadingChunk
<1> HIDE DEF next
<1>4. Converses(next, s, to)
  BY <1>2, <1>3 DEF Converses, wire
<1> QED
  BY <1>3, <1>4 DEF next, wire

LEMMA ConversesFails ==
    ASSUME NEW s, NEW n, NEW p, Converses(p, s, n)
    PROVE  LET next == [p EXCEPT !.errors = @ + 1]
           IN  Converses(next, s, n) /\ next.raw = p.raw /\ next.seen = p.seen
  BY ReadingFails DEF Converses

LEMMA InitInv == PageInit => PageInv
<1> SUFFICES ASSUME PageInit PROVE PageInv
  OBVIOUS
<1>1. /\ stream = [c \in Sends |-> "none"] /\ asks = [c \in Sends |-> 0]
      /\ broken = [c \in Sends |-> FALSE] /\ current = 0 /\ sent = <<>> /\ read = 0
      /\ isStreaming = FALSE /\ renderTimer = FALSE /\ shown = 0 /\ page = NewPage
  BY DEF PageInit, Server!Init
<1>2. <<>> \in Seq(Frame) /\ Len(<<>>) = 0
  OBVIOUS
<1>3. page.raw = 0
  BY <1>1, NewPageReads
<1>4. PageTypes
  <2>1. 0 \in 0..MaxAsks /\ 0 \in 0..MaxSends
    BY DEF PageAssumption
  <2>2. stream \in [Sends -> Streams] /\ asks \in [Sends -> 0..MaxAsks] /\ broken \in [Sends -> BOOLEAN]
    BY <1>1, <2>1 DEF Streams
  <2>3. sent \in Seq(Frame)
    BY <1>1, <1>2
  <2> QED
    BY <1>1, <1>3, <2>1, <2>2, <2>3 DEF PageTypes
<1>5. NotSentYet
  BY <1>1 DEF NotSentYet
<1>6. Written
  BY <1>1, <1>2 DEF Written, Alternating
<1>7. Locked /\ Rendered
  BY <1>1, <1>3 DEF Locked, Rendered
<1>8. TurnsKept
  BY <1>1 DEF TurnsKept
<1>9. Converses(page, sent, read)
  BY <1>1, ConversesNew
<1>10. Counts(shown, page.raw)
  BY <1>1, <1>3, CountsAll
<1> QED
  BY <1>4, <1>5, <1>6, <1>7, <1>8, <1>9, <1>10 DEF PageInv

-----------------------------------------------------------------------------
(* The steps of the server.                                                *)

PageSame == UNCHANGED <<broken, current, read, isStreaming, renderTimer, shown, page>>

\* The stream of c goes to to, and what was written to its connection fits.
MovesOn(c, to) ==
    /\ stream[c] \in {"none", "open", "tool"} /\ to \in Streams
    /\ stream' = [stream EXCEPT ![c] = to] /\ asks' \in [Sends -> 0..MaxAsks]
    /\ c = current /\ ~broken[c] =>
          /\ Protocol(to, sent')
          /\ sent' = sent \/ \E f \in Frame : Follows(sent, f) /\ sent' = Append(sent, f)
    /\ c # current \/ broken[c] => sent' = sent

LEMMA MovesKeep ==
    ASSUME PageInv, NEW c \in Sends, c <= current, NEW to, MovesOn(c, to), PageSame
    PROVE  PageInv'
<1>1. /\ PageTypes /\ NotSentYet /\ Written /\ Locked /\ Rendered /\ TurnsKept
      /\ Counts(shown, page.raw) /\ Converses(page, sent, read)
  BY DEF PageInv
<1>2. /\ broken' = broken /\ current' = current /\ read' = read /\ isStreaming' = isStreaming
      /\ renderTimer' = renderTimer /\ shown' = shown /\ page' = page
  BY DEF PageSame
<1>3. /\ stream[c] \in {"none", "open", "tool"} /\ to \in Streams
      /\ stream' = [stream EXCEPT ![c] = to] /\ asks' \in [Sends -> 0..MaxAsks]
  BY DEF MovesOn
<1>4. stream'[c] = to /\ \A d \in Sends : d # c => stream'[d] = stream[d]
  BY <1>1, <1>3 DEF PageTypes
<1>5. /\ sent \in Seq(Frame) /\ read \in Nat /\ Alternating(sent) /\ c \in Nat /\ c # 0 /\ current \in Nat
      /\ current # 0 /\ current \in Sends
  BY <1>1 DEF PageTypes, Written, Sends
<1>6. sent' = sent \/ \E f \in Frame : Follows(sent, f) /\ sent' = Append(sent, f)
  BY DEF MovesOn
<1>7. sent' \in Seq(Frame) /\ Alternating(sent') /\ Converses(page, sent', read)
  <2>1. CASE sent' = sent
    BY <1>1, <1>5, <2>1
  <2>2. ASSUME NEW f \in Frame, Follows(sent, f), sent' = Append(sent, f)
        PROVE  sent' \in Seq(Frame) /\ Alternating(sent') /\ Converses(page, sent', read)
    <3>1. Alternating(Append(sent, f)) /\ Converses(page, Append(sent, f), read)
      BY <1>1, <1>5, <2>2, AlternatingGrows, ConversesGrows
    <3> QED
      BY <1>5, <2>2, <3>1
  <2> QED
    BY <1>6, <2>1, <2>2
<1>8. PageTypes'
  BY <1>1, <1>2, <1>3, <1>7 DEF PageTypes
<1>9. NotSentYet'
  <2> SUFFICES ASSUME NEW d \in Sends, d > current PROVE stream'[d] = "none" /\ ~broken[d]
    BY <1>2 DEF NotSentYet
  <2>1. d # c
    BY <1>5 DEF Sends
  <2> QED
    BY <1>1, <1>4, <2>1 DEF NotSentYet
<1>10. Written'
  <2>1. Len(sent') <= MaxEvents + 2
    BY <1>1 DEF MovesOn, Protocol, Written
  <2>2. ~broken[current] => Protocol(stream'[current], sent')
    <3>1. CASE c = current
      BY <1>4, <3>1 DEF MovesOn
    <3>2. CASE c # current
      <4>1. sent' = sent /\ stream'[current] = stream[current]
        BY <1>4, <1>5, <3>2 DEF MovesOn
      <4> QED
        BY <1>1, <1>5, <4>1 DEF Written
    <3> QED
      BY <3>1, <3>2
  <2> QED
    BY <1>2, <1>5, <1>7, <2>1, <2>2 DEF Written
<1>11. Locked'
  <2>1. isStreaming => ~broken[current]
    BY <1>1 DEF Locked
  <2>2. ASSUME ~isStreaming, ~broken[current]
        PROVE  page.seen = sent' /\ stream'[current] \in {"done", "error"}
    <3>1. page.seen = sent /\ stream[current] \in {"done", "error"}
      BY <1>1, <1>5, <2>2 DEF Locked
    <3>2. c # current
      BY <1>3, <3>1
    <3>3. sent' = sent /\ stream'[current] = stream[current]
      BY <1>4, <1>5, <3>2 DEF MovesOn
    <3> QED
      BY <3>1, <3>3
  <2> QED
    BY <1>2, <1>5, <2>1, <2>2 DEF Locked
<1>12. Rendered'
  BY <1>1, <1>2 DEF Rendered
<1>13. TurnsKept'
  <2> SUFFICES ASSUME NEW d \in 1..current
               PROVE  stream'[d] \in {"done", "error", "cut"} \/ broken[d] \/ (d = current /\ isStreaming)
    BY <1>2 DEF TurnsKept
  <2>1. stream[d] \in {"done", "error", "cut"} \/ broken[d] \/ (d = current /\ isStreaming)
    BY <1>1 DEF TurnsKept
  <2>2. d \in Sends
    BY <1>1 DEF PageTypes, Sends
  <2> QED
    BY <1>3, <1>4, <2>1, <2>2
<1> QED
  BY <1>1, <1>2, <1>7, <1>8, <1>9, <1>10, <1>11, <1>12, <1>13 DEF PageInv

\* Of an event that is written only if the connection is there.
LEMMA WriteMoves ==
    ASSUME PageInv, NEW c \in Sends, NEW to \in Streams, NEW f \in Frame,
           stream[c] \in {"none", "open", "tool"}, stream' = [stream EXCEPT ![c] = to],
           asks' \in [Sends -> 0..MaxAsks], Write(c, f),
           c = current /\ ~broken[c] => Follows(sent, f) /\ Protocol(to, Append(sent, f))
    PROVE  MovesOn(c, to) /\ PageSame
<1>1. sent' = IF c = current /\ ~broken[c] THEN Append(sent, f) ELSE sent
  BY DEF Write
<1>2. PageSame
  BY DEF Write, PageSame
<1>3. CASE c = current /\ ~broken[c]
  BY <1>1, <1>2, <1>3 DEF MovesOn
<1>4. CASE ~(c = current /\ ~broken[c])
  BY <1>1, <1>2, <1>4 DEF MovesOn
<1> QED
  BY <1>3, <1>4

LEMMA ServerKeeps ==
    ASSUME PageInv, NEW c \in Sends, ServerStep(c)
    PROVE  PageInv'
<1>1. c <= current
  BY DEF ServerStep
<1>2. /\ stream \in [Sends -> Streams] /\ asks \in [Sends -> 0..MaxAsks] /\ sent \in Seq(Frame)
      /\ c \in Nat /\ c # 0
  BY DEF PageInv, PageTypes, Sends
<1>3. c = current /\ ~broken[c] => Protocol(stream[c], sent)
  BY <1>2 DEF PageInv, Written
<1> SUFFICES \E to : MovesOn(c, to) /\ PageSame
  BY <1>1, MovesKeep
<1>4. CASE Server!Open(c) /\ NoWrite
  <2>1. stream[c] = "none" /\ stream' = [stream EXCEPT ![c] = "open"] /\ asks' = asks
    BY <1>4 DEF Server!Open, Server!Move
  <2>2. sent' = sent /\ PageSame
    BY <1>4 DEF NoWrite, PageSame
  <2>3. c = current /\ ~broken[c] => Protocol("open", sent)
    BY <1>2, <1>3, <2>1, ProtocolMoves
  <2>4. MovesOn(c, "open")
    BY <1>2, <2>1, <2>2, <2>3 DEF MovesOn, Streams
  <2> QED
    BY <2>2, <2>4
<1>5. CASE Server!Ask(c) /\ NoWrite
  <2>1. /\ stream[c] = "open" /\ stream' = stream
        /\ asks[c] < MaxAsks /\ asks' = [asks EXCEPT ![c] = @ + 1]
    BY <1>5 DEF Server!Ask
  <2>2. sent' = sent /\ PageSame
    BY <1>5 DEF NoWrite, PageSame
  <2>3. stream' = [stream EXCEPT ![c] = "open"]
    BY <1>2, <2>1
  <2>4. asks' \in [Sends -> 0..MaxAsks]
    BY <1>2, <2>1
  <2>5. c = current /\ ~broken[c] => Protocol("open", sent)
    BY <1>3, <2>1
  <2>6. MovesOn(c, "open")
    BY <2>1, <2>2, <2>3, <2>4, <2>5 DEF MovesOn, Streams
  <2> QED
    BY <2>2, <2>6
<1>6. CASE /\ stream[c] = "open" /\ asks[c] > 0 /\ RoomLeft
           /\ UNCHANGED serverVars
           /\ Write(c, [event |-> "content"])
  <2> DEFINE f == [event |-> "content"]
  <2>1. f \in Frame /\ f.event = "content"
    BY DEF Frame
  <2>2. stream' = [stream EXCEPT ![c] = "open"] /\ asks' \in [Sends -> 0..MaxAsks]
    BY <1>2, <1>6 DEF serverVars
  <2> HIDE DEF f
  <2>3. c = current /\ ~broken[c] => Follows(sent, f) /\ Protocol("open", Append(sent, f))
    BY <1>2, <1>3, <1>6, <2>1, ProtocolMoves DEF RoomLeft
  <2>4. Write(c, f)
    BY <1>6 DEF f
  <2>5. MovesOn(c, "open") /\ PageSame
    BY <1>6, <2>1, <2>2, <2>3, <2>4, WriteMoves DEF Streams
  <2> QED
    BY <2>5
<1>7. ASSUME Server!ToolStart(c), RoomLeft, NEW t \in Tools,
             Write(c, [event |-> "tool_start", tool |-> t])
      PROVE  MovesOn(c, "tool") /\ PageSame
  <2> DEFINE f == [event |-> "tool_start", tool |-> t]
  <2>1. f \in Frame /\ f.event = "tool_start"
    BY DEF Frame
  <2>2. /\ stream[c] = "open" /\ stream' = [stream EXCEPT ![c] = "tool"]
        /\ asks' \in [Sends -> 0..MaxAsks]
    BY <1>2, <1>7 DEF Server!ToolStart, Server!Move
  <2> HIDE DEF f
  <2>3. c = current /\ ~broken[c] => Follows(sent, f) /\ Protocol("tool", Append(sent, f))
    BY <1>2, <1>3, <1>7, <2>1, <2>2, ProtocolMoves DEF RoomLeft
  <2>4. Write(c, f)
    BY <1>7 DEF f
  <2> QED
    BY <2>1, <2>2, <2>3, <2>4, WriteMoves DEF Streams
<1>8. CASE Server!ToolResult(c) /\ WriteResult(c)
  <2>1. /\ stream[c] = "tool" /\ stream' = [stream EXCEPT ![c] = "open"]
        /\ asks' \in [Sends -> 0..MaxAsks]
    BY <1>2, <1>8 DEF Server!ToolResult, Server!Move
  <2>2. CASE c = current /\ ~broken[c]
    <3> DEFINE f == [event |-> "tool_result", tool |-> LastTool(sent)]
    <3>1. Write(c, f)
      BY <1>8, <2>2 DEF WriteResult
    <3>2. Protocol("tool", sent)
      BY <1>3, <2>1, <2>2
    <3>3. LastTool(sent) \in Tools
      BY <1>2, <3>2, LastToolIs DEF Protocol
    <3>4. f \in Frame /\ f.event = "tool_result" /\ f.tool = LastTool(sent)
      BY <3>3 DEF Frame
    <3> HIDE DEF f
    <3>5. Follows(sent, f) /\ Protocol("open", Append(sent, f))
      BY <1>2, <3>2, <3>4, ProtocolMoves
    <3>6. MovesOn(c, "open") /\ PageSame
      BY <2>1, <3>1, <3>4, <3>5, WriteMoves DEF Streams
    <3> QED
      BY <3>6
  <2>3. CASE ~(c = current /\ ~broken[c])
    <3>1. sent' = sent /\ PageSame
      BY <1>8, <2>3 DEF WriteResult, NoWrite, PageSame
    <3>2. MovesOn(c, "open")
      BY <2>1, <2>3, <3>1 DEF MovesOn, Streams
    <3> QED
      BY <3>1, <3>2
  <2> QED
    BY <2>2, <2>3
<1>9. ASSUME Server!Finish(c), NEW f \in Frame, f.event \in {"done", "error"},
             stream'[c] = f.event, Write(c, f)
      PROVE  MovesOn(c, f.event) /\ PageSame
  <2>1. /\ stream[c] = "open" /\ asks' \in [Sends -> 0..MaxAsks]
        /\ \E e \in {"done", "error"} : stream' = [stream EXCEPT ![c] = e]
    BY <1>2, <1>9 DEF Server!Finish, Server!Move
  <2>2. stream' = [stream EXCEPT ![c] = f.event]
    BY <1>2, <1>9, <2>1
  <2>3. c = current /\ ~broken[c] => Follows(sent, f) /\ Protocol(f.event, Append(sent, f))
    BY <1>2, <1>3, <1>9, <2>1, ProtocolMoves
  <2>4. f.event \in Streams
    BY <1>9 DEF Streams
  <2> QED
    BY <1>9, <2>1, <2>2, <2>3, <2>4, WriteMoves
<1>10. CASE Server!Cut(c) /\ NoWrite
  <2>1. stream[c] = "tool" /\ stream' = [stream EXCEPT ![c] = "cut"] /\ asks' = asks
    BY <1>10 DEF Server!Cut, Server!Move
  <2>2. sent' = sent /\ PageSame
    BY <1>10 DEF NoWrite, PageSame
  <2>3. c = current /\ ~broken[c] => Protocol("cut", sent)
    BY <1>2, <1>3, <2>1, ProtocolMoves
  <2>4. MovesOn(c, "cut")
    BY <1>2, <2>1, <2>2, <2>3 DEF MovesOn, Streams
  <2> QED
    BY <2>2, <2>4
<1>11. [event |-> "done"] \in Frame /\ \A x \in {"line", "lines", "gap"} : [event |-> "error", text |-> x] \in Frame
  BY DEF Frame
<1>12. CASE Server!Finish(c) /\ stream'[c] = "done" /\ Write(c, [event |-> "done"])
  <2>1. MovesOn(c, [event |-> "done"].event) /\ PageSame
    BY <1>9, <1>11, <1>12
  <2> QED
    BY <2>1
<1>13. CASE Server!Finish(c) /\ stream'[c] = "error"
            /\ \E x \in {"line", "lines", "gap"} : Write(c, [event |-> "error", text |-> x])
  <2>1. PICK x \in {"line", "lines", "gap"} : Write(c, [event |-> "error", text |-> x])
    BY <1>13
  <2> DEFINE f == [event |-> "error", text |-> x]
  <2>2. f \in Frame /\ f.event = "error" /\ Write(c, f)
    BY <1>11, <2>1
  <2> HIDE DEF f
  <2>3. MovesOn(c, f.event) /\ PageSame
    BY <1>9, <1>13, <2>2
  <2> QED
    BY <2>3
<1> QED
  BY <1>4, <1>5, <1>6, <1>7, <1>8, <1>10, <1>12, <1>13 DEF ServerStep

-----------------------------------------------------------------------------
(* The steps of the page.                                                  *)

LEMMA SendKeeps == ASSUME PageInv, SendMessage PROVE PageInv'
<1>1. PageTypes /\ NotSentYet /\ Written /\ Locked /\ Rendered /\ TurnsKept
  BY DEF PageInv
<1>2. /\ ~isStreaming /\ current < MaxSends /\ current' = current + 1 /\ sent' = <<>> /\ read' = 0
      /\ isStreaming' = TRUE /\ shown' = 0 /\ page' = NewPage
      /\ stream' = stream /\ asks' = asks /\ broken' = broken /\ renderTimer' = renderTimer
  BY DEF SendMessage, MaySend, serverVars
<1>3. current \in Nat /\ current + 1 \in 0..MaxSends /\ current + 1 \in Sends /\ current + 1 > current
  BY <1>1, <1>2 DEF PageTypes, Sends
<1>4. stream[current + 1] = "none" /\ ~broken[current + 1]
  BY <1>1, <1>3 DEF NotSentYet
<1>5. <<>> \in Seq(Frame) /\ Len(<<>>) = 0 /\ 1..0 = {} /\ DOMAIN <<>> = {}
  OBVIOUS
<1>6. page'.raw = 0
  BY <1>2, NewPageReads
<1>7. PageTypes'
  <2>1. sent' \in Seq(Frame) /\ read' \in Nat
    BY <1>2, <1>5
  <2> QED
    BY <1>1, <1>2, <1>3, <2>1 DEF PageTypes
<1>8. NotSentYet'
  <2> SUFFICES ASSUME NEW c \in Sends, c > current + 1 PROVE stream[c] = "none" /\ ~broken[c]
    BY <1>2 DEF NotSentYet
  <2>1. c > current
    BY <1>3 DEF Sends
  <2> QED
    BY <1>1, <2>1 DEF NotSentYet
<1>9. Written'
  <2>1. Alternating(<<>>)
    BY <1>5 DEF Alternating
  <2>2. Protocol("none", <<>>)
    BY <1>5 DEF Protocol
  <2>3. 0 <= MaxEvents + 2 /\ current + 1 # 0
    BY <1>3
  <2> QED
    BY <1>2, <1>4, <1>5, <2>1, <2>2, <2>3 DEF Written
<1>10. Locked'
  <2>1. current + 1 # 0
    BY <1>3
  <2> QED
    BY <1>2, <1>4, <2>1 DEF Locked
<1>11. Rendered'
  BY <1>2, <1>6 DEF Rendered
<1>12. TurnsKept'
  <2> SUFFICES ASSUME NEW c \in 1..current + 1
               PROVE  stream[c] \in {"done", "error", "cut"} \/ broken[c] \/ c = current + 1
    BY <1>2 DEF TurnsKept
  <2>1. c = current + 1 \/ c \in 1..current
    BY <1>3
  <2>2. c \in 1..current => stream[c] \in {"done", "error", "cut"} \/ broken[c]
    BY <1>1, <1>2 DEF TurnsKept
  <2> QED
    BY <2>1, <2>2
<1>13. Converses(page', sent', read')
  BY <1>2, ConversesNew
<1>14. Counts(shown', page'.raw)
  BY <1>2, <1>6, CountsAll
<1> QED
  BY <1>7, <1>8, <1>9, <1>10, <1>11, <1>12, <1>13, <1>14 DEF PageInv

\* The steps that end the stream or read from it leave the server alone.
ServerSame == UNCHANGED <<stream, asks, current, sent>>

\* A request that the page is done with keeps the turns.
LEMMA TurnsStay ==
    ASSUME TurnsKept, current' = current, stream' = stream, \A c \in 1..current : broken[c] => broken'[c],
           isStreaming' = isStreaming \/ stream[current] \in {"done", "error", "cut"} \/ broken'[current]
    PROVE  TurnsKept'
  BY DEF TurnsKept

\* The page has seen a "done": it is the last frame, and the server is done.
LEMMA DoneIsLast ==
    ASSUME NEW s \in Seq(Frame), NEW st, Protocol(st, s), NEW n \in Nat, NEW p, Converses(p, s, n),
           p.streamDone
    PROVE  p.seen = s /\ st = "done"
<1>1. PICK k \in 0..Len(s) : p.seen = SubSeq(s, 1, k)
  BY ConversesSays
<1>2. PICK i \in DOMAIN p.seen : p.seen[i].event = "done"
  BY ConversesSays DEF Told
<1>3. i \in 1..k /\ s[i].event = "done" /\ i \in DOMAIN s /\ Len(s) \in Nat
  BY <1>1, <1>2, FirstOnes
<1>4. i = Len(s) /\ st = "done"
  BY <1>3 DEF Protocol
<1>5. k = Len(s)
  BY <1>3, <1>4
<1> QED
  BY <1>1, <1>4, <1>5, FirstOnes

LEMMA ReadKeeps == ASSUME PageInv, Read PROVE PageInv'
<1>1. /\ PageTypes /\ NotSentYet /\ Written /\ Locked /\ Rendered /\ TurnsKept
      /\ Counts(shown, page.raw) /\ Converses(page, sent, read)
  BY DEF PageInv
<1>2. /\ isStreaming /\ stream' = stream /\ asks' = asks /\ broken' = broken /\ current' = current
      /\ sent' = sent
  BY DEF Read, serverVars
<1>3. /\ sent \in Seq(Frame) /\ read \in Nat /\ Alternating(sent) /\ current # 0 /\ ~broken[current]
      /\ Protocol(stream[current], sent)
  BY <1>1, <1>2 DEF PageTypes, Written, Locked
<1>4. PICK n \in (read + 1)..Len(WireOf(sent)) :
         read' = n /\ page' = FoldLeft(HandlePiece, page, SubSeq(WireOf(sent), read + 1, n))
  BY WireIs DEF Read, HandleChunk
<1>5. n \in read..Len(WireOf(sent)) /\ n \in Nat
  <2>1. Len(WireOf(sent)) \in Nat
    BY <1>1, <1>3, ConversesSays
  <2> QED
    BY <1>3, <2>1
<1>6. Converses(page', sent, read') /\ page'.raw >= page.raw
  BY <1>1, <1>3, <1>4, <1>5, ConversesChunk
<1>7. page.raw \in Nat /\ page'.raw \in Nat /\ read' \in Nat
  BY <1>1, <1>3, <1>4, <1>5, <1>6, ConversesSays
<1>8. CASE page'.streamDone
  <2>1. renderTimer' = FALSE /\ shown' = page'.raw /\ isStreaming' = FALSE
    BY <1>8 DEF Read, Finalize
  <2>2. page'.seen = sent /\ stream[current] = "done"
    BY <1>3, <1>5, <1>4, <1>6, <1>8, DoneIsLast
  <2>3. PageTypes'
    BY <1>1, <1>2, <1>7, <2>1 DEF PageTypes
  <2>7. Counts(shown', page'.raw)
    BY <1>7, <2>1, CountsAll
  <2>4. NotSentYet' /\ Written'
    BY <1>1, <1>2 DEF NotSentYet, Written
  <2>5. Locked' /\ Rendered'
    BY <1>2, <2>1, <2>2 DEF Locked, Rendered
  <2>6. TurnsKept'
    BY <1>1, <1>2, <2>2, TurnsStay
  <2> QED
    BY <1>2, <1>6, <2>3, <2>4, <2>5, <2>6, <2>7 DEF PageInv
<1>9. CASE ~page'.streamDone
  <2>1. /\ renderTimer' = (renderTimer \/ page'.raw > page.raw) /\ shown' = shown
        /\ isStreaming' = isStreaming
    BY <1>9 DEF Read
  <2>2. PageTypes'
    <3>1. renderTimer' \in BOOLEAN
      BY <2>1
    <3>2. isStreaming' \in BOOLEAN
      BY <1>1, <2>1 DEF PageTypes
    <3> QED
      BY <1>1, <1>2, <1>7, <3>1, <3>2 DEF PageTypes
  <2>3. NotSentYet' /\ Written' /\ Locked'
    BY <1>1, <1>2, <2>1 DEF NotSentYet, Written, Locked
  <2>4. Rendered'
    <3>1. page'.raw = page.raw \/ page'.raw > page.raw
      BY <1>6, <1>7
    <3>2. isStreaming'
      BY <1>2, <2>1
    <3>3. CASE page'.raw = page.raw
      <4>1. renderTimer => renderTimer'
        BY <2>1
      <4> QED
        BY <1>1, <2>1, <3>2, <3>3, <4>1 DEF Rendered
    <3>4. CASE page'.raw > page.raw
      <4>1. renderTimer'
        BY <2>1, <3>4
      <4> QED
        BY <3>2, <4>1 DEF Rendered
    <3> QED
      BY <3>1, <3>3, <3>4
  <2>6. Counts(shown', page'.raw)
    BY <1>1, <1>6, <1>7, <2>1, CountsMore
  <2>5. TurnsKept'
    BY <1>1, <1>2, <2>1, TurnsStay
  <2> QED
    BY <1>2, <1>6, <2>2, <2>3, <2>4, <2>5, <2>6 DEF PageInv
<1> QED
  BY <1>8, <1>9

LEMMA EndKeeps == ASSUME PageInv, EndOfStream PROVE PageInv'
<1>1. /\ PageTypes /\ NotSentYet /\ Written /\ Locked /\ Rendered /\ TurnsKept
      /\ Counts(shown, page.raw) /\ Converses(page, sent, read)
  BY DEF PageInv
<1>2. /\ isStreaming /\ stream[current] \in {"done", "error"} /\ read = Len(WireOf(sent))
      /\ renderTimer' = FALSE /\ shown' = page.raw /\ isStreaming' = FALSE
      /\ stream' = stream /\ asks' = asks /\ broken' = broken /\ current' = current
      /\ sent' = sent /\ read' = read /\ page' = page
  BY WireIs DEF EndOfStream, Finalize, serverVars
<1>3. page.raw \in Nat /\ page.seen = sent
  BY <1>1, <1>2, ConversesSays DEF PageTypes
<1>4. PageTypes' /\ Counts(shown', page'.raw)
  BY <1>1, <1>2, <1>3, CountsAll DEF PageTypes
<1>5. NotSentYet' /\ Written' /\ Converses(page', sent', read')
  BY <1>1, <1>2 DEF NotSentYet, Written
<1>6. Locked' /\ Rendered'
  BY <1>2, <1>3 DEF Locked, Rendered
<1>7. TurnsKept'
  BY <1>1, <1>2, TurnsStay
<1> QED
  BY <1>4, <1>5, <1>6, <1>7 DEF PageInv

LEMMA DisconnectKeeps == ASSUME PageInv, Disconnect PROVE PageInv'
<1>1. /\ PageTypes /\ NotSentYet /\ Written /\ Locked /\ Rendered /\ TurnsKept
      /\ Counts(shown, page.raw) /\ Converses(page, sent, read)
  BY DEF PageInv
<1>2. /\ isStreaming /\ broken' = [broken EXCEPT ![current] = TRUE]
      /\ page' = [page EXCEPT !.errors = @ + 1]
      /\ renderTimer' = FALSE /\ shown' = page.raw /\ isStreaming' = FALSE
      /\ stream' = stream /\ asks' = asks /\ current' = current /\ sent' = sent /\ read' = read
  BY DEF Disconnect, Finalize, AfterError, serverVars
<1>3. /\ page.raw \in Nat /\ current \in Sends /\ current \in Nat
      /\ broken' \in [Sends -> BOOLEAN] /\ broken'[current]
      /\ \A c \in Sends : c # current => broken'[c] = broken[c]
  BY <1>1, <1>2 DEF PageTypes, Locked, Sends, Counts
<1>4. Converses(page', sent, read) /\ page'.raw = page.raw
  BY <1>1, <1>2, ConversesFails
<1>5. PageTypes' /\ Counts(shown', page'.raw)
  BY <1>1, <1>2, <1>3, <1>4, CountsAll DEF PageTypes
<1>6. NotSentYet'
  <2> SUFFICES ASSUME NEW c \in Sends, c > current PROVE stream[c] = "none" /\ ~broken'[c]
    BY <1>2 DEF NotSentYet
  <2>1. c # current
    BY <1>3
  <2> QED
    BY <1>1, <1>3, <2>1 DEF NotSentYet
<1>7. Written' /\ Locked' /\ Rendered'
  BY <1>1, <1>2, <1>3, <1>4 DEF Written, Locked, Rendered
<1>8. TurnsKept'
  <2>1. \A c \in 1..current : broken[c] => broken'[c]
    BY <1>1, <1>3 DEF PageTypes, Sends
  <2> QED
    BY <1>1, <1>2, <1>3, <2>1, TurnsStay
<1> QED
  BY <1>2, <1>4, <1>5, <1>6, <1>7, <1>8 DEF PageInv

LEMMA TimerKeeps == ASSUME PageInv, RenderTimer PROVE PageInv'
<1>1. /\ PageTypes /\ NotSentYet /\ Written /\ Locked /\ Rendered /\ TurnsKept
      /\ Counts(shown, page.raw) /\ Converses(page, sent, read)
  BY DEF PageInv
<1>2. /\ renderTimer' = FALSE /\ shown' = page.raw /\ isStreaming' = isStreaming
      /\ stream' = stream /\ asks' = asks /\ broken' = broken /\ current' = current
      /\ sent' = sent /\ read' = read /\ page' = page
  BY DEF RenderTimer, serverVars
<1>3. PageTypes' /\ Counts(shown', page'.raw)
  BY <1>1, <1>2, CountsAll DEF PageTypes, Counts
<1>4. NotSentYet' /\ Written' /\ Locked' /\ Rendered' /\ Converses(page', sent', read')
  BY <1>1, <1>2 DEF NotSentYet, Written, Locked, Rendered
<1>5. TurnsKept'
  BY <1>1, <1>2, TurnsStay
<1> QED
  BY <1>3, <1>4, <1>5 DEF PageInv

LEMMA StutterKeeps == ASSUME PageInv, UNCHANGED pageVars PROVE PageInv'
  BY DEF PageInv, PageTypes, NotSentYet, Written, Locked, Rendered, TurnsKept, pageVars

LEMMA PageInvHolds == PageSpec => []PageInv
<1>1. PageInit => PageInv
  BY InitInv
<1>2. PageInv /\ [PageNext]_pageVars => PageInv'
  <2> SUFFICES ASSUME PageInv, [PageNext]_pageVars PROVE PageInv'
    OBVIOUS
  <2>1. CASE \E c \in Sends : ServerStep(c)
    BY <2>1, ServerKeeps
  <2>2. CASE SendMessage
    BY <2>2, SendKeeps
  <2>3. CASE Read
    BY <2>3, ReadKeeps
  <2>4. CASE EndOfStream
    BY <2>4, EndKeeps
  <2>5. CASE Disconnect
    BY <2>5, DisconnectKeeps
  <2>6. CASE RenderTimer
    BY <2>6, TimerKeeps
  <2>7. CASE UNCHANGED pageVars
    BY <2>7, StutterKeeps
  <2> QED
    BY <2>1, <2>2, <2>3, <2>4, <2>5, <2>6, <2>7 DEF PageNext
<1> QED
  BY <1>1, <1>2, PTL DEF PageSpec

-----------------------------------------------------------------------------
(* Theorems.                                                               *)

\* What the page takes the server to do is what ChatContract lets it do, which is
\* what the engine does (ContractKept): however messages, chunks, broken
\* connections and late requests interleave, no stream of the page leaves it.
THEOREM PageServerKeepsContract == PageSpec => Server!Spec
<1>1. PageInit => Server!Init
  BY DEF PageInit
<1>2. ASSUME [PageNext]_pageVars PROVE [Server!Next]_(Server!vars)
  <2>1. ASSUME UNCHANGED serverVars PROVE [Server!Next]_(Server!vars)
    BY <2>1 DEF serverVars, Server!vars
  <2>2. ASSUME NEW c \in Sends, ServerStep(c) PROVE [Server!Next]_(Server!vars)
    BY <2>1, <2>2 DEF ServerStep, Server!Next
  <2>3. CASE SendMessage \/ Read \/ EndOfStream \/ Disconnect \/ RenderTimer
    BY <2>1, <2>3 DEF SendMessage, Read, EndOfStream, Disconnect, RenderTimer
  <2>4. CASE UNCHANGED pageVars
    BY <2>1, <2>4 DEF pageVars, serverVars
  <2> QED
    BY <1>2, <2>2, <2>3, <2>4 DEF PageNext
<1> QED
  BY <1>1, <1>2, PTL DEF PageSpec, Server!Spec

\* Every variable of the page and of the server has its type, the frames of a
\* request are bounded, and no more is read or shown than was sent.
THEOREM PageTypeCorrect == PageSpec => []PageTypeOK
<1>1. PageInv => PageTypeOK
  <2> SUFFICES ASSUME PageInv PROVE PageTypeOK
    OBVIOUS
  <2>1. PageTypes /\ Written /\ Counts(shown, page.raw) /\ Converses(page, sent, read)
    BY DEF PageInv
  <2>2. sent \in Seq(Frame) /\ read \in Nat
    BY <2>1 DEF PageTypes
  <2>3. read \in 0..Len(Wire) /\ PageType(page)
    BY <2>1, <2>2, ConversesSays, WireIs
  <2>4. page.badges \in Seq([tool : Tools, state : {"pending", "success", "error"}])
    BY <2>3 DEF PageType, Badge
  <2>5. page.raw \in Nat /\ shown \in 0..page.raw
    BY <2>1 DEF Counts
  <2>6. Len(sent) <= MaxEvents + 2
    BY <2>1 DEF Written
  <2>7. Server!vars \in [Sends -> {"none", "open", "tool", "done", "error", "cut"}]
                           \X [Sends -> 0..MaxAsks]
    BY <2>1 DEF PageTypes, Streams, Server!vars
  <2> QED
    BY <2>1, <2>3, <2>4, <2>5, <2>6, <2>7 DEF PageTypeOK, PageTypes
<1> QED
  BY <1>1, PageInvHolds, PTL

\* However the stream is cut into chunks, the page handles the events that were
\* sent, in order and each once, and all of them if the connection lasted.
THEOREM PageEventsInOrder == PageSpec => []EventsInOrder
<1>1. PageInv => EventsInOrder
  <2> SUFFICES ASSUME PageInv PROVE EventsInOrder
    OBVIOUS
  <2>1. PageTypes /\ Locked /\ Converses(page, sent, read)
    BY DEF PageInv
  <2>2. sent \in Seq(Frame) /\ read \in Nat /\ current \in Nat
    BY <2>1 DEF PageTypes
  <2>3. PICK k \in 0..Len(sent) : page.seen = SubSeq(sent, 1, k)
    BY <2>1, <2>2, ConversesSays
  <2>4. IsPrefix(page.seen, sent)
    <3>1. Len(page.seen) = k /\ k <= Len(sent) /\ page.seen \in Seq(Frame)
      BY <2>2, <2>3, FirstOnes
    <3>2. SubSeq(page.seen, 1, k) = page.seen
      BY <3>1, FirstOnes
    <3> QED
      BY <2>3, <3>1, <3>2 DEF IsPrefix
  <2>5. current > 0 => current # 0
    BY <2>2
  <2> QED
    BY <2>1, <2>4, <2>5 DEF EventsInOrder, Locked
<1> QED
  BY <1>1, PageInvHolds, PTL

\* The throttled rendering loses no text.
THEOREM PageTextShown == PageSpec => []TextShown
<1>1. PageInv => TextShown
  <2> SUFFICES ASSUME PageInv PROVE TextShown
    OBVIOUS
  <2>1. PageTypes /\ Rendered /\ Converses(page, sent, read)
    BY DEF PageInv
  <2>2. PageType(page) /\ Told(page)
    BY <2>1, ConversesSays DEF PageTypes
  <2> DEFINE s == page.seen
             chosen == {i \in DOMAIN s : s[i].event \in {"content"}}
  <2>3. s \in Seq(Frame) /\ page.raw = Len(Filtered(s, chosen))
    BY <2>2 DEF PageType, Told, EventsOf
  <2>4. chosen = {i \in DOMAIN s : s[i].event = "content"} /\ chosen \in SUBSET (DOMAIN s)
    OBVIOUS
  <2> HIDE DEF s, chosen
  <2>5. Len(Filtered(s, chosen)) = Cardinality(chosen)
    BY <2>3, <2>4, FilteredIs
  <2>6. page.raw = Cardinality({i \in DOMAIN page.seen : page.seen[i].event = "content"})
    BY <2>3, <2>4, <2>5 DEF s
  <2> QED
    BY <2>1, <2>6 DEF TextShown, Rendered
<1> QED
  BY <1>1, PageInvHolds, PTL

\* The badges tell which tools ran and which one runs, also when a tool is
\* called again.
THEOREM PageBadgesTell == PageSpec => []BadgesTell
<1>1. PageInv => BadgesTell
  <2> SUFFICES ASSUME PageInv PROVE BadgesTell
    OBVIOUS
  <2>1. Told(page)
    BY ConversesSays DEF PageInv, PageTypes
  <2>2. ToolEvents = Tooling(page.seen)
    BY DEF ToolEvents, Tooling
  <2>3. page.badges = BadgesFor(ToolEvents)
    BY <2>1, <2>2 DEF Told, BadgesTold
  <2> QED
    BY <2>3 DEF BadgesTell, BadgesFor
<1> QED
  BY <1>1, PageInvHolds, PTL

\* The page's flag keeps the requests of its session apart, as long as their
\* connections last.
THEOREM PageTurnsKept == PageSpec => []TurnsKept
<1>1. PageInv => TurnsKept
  BY DEF PageInv
<1> QED
  BY <1>1, PageInvHolds, PTL
=============================================================================
