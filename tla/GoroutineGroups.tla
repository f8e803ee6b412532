--------------------------- MODULE GoroutineGroups --------------------------
(***************************************************************************)
(* get_goroutine_stacks and get_goroutine_states (inspector_goroutine.go): *)
(* goroutines grouped by the first lines of their stacks, and counted by   *)
(* their state.  The tools work on a dump of all stacks and ask for the    *)
(* number of goroutines when the dump is worked up: goroutines start and   *)
(* end in between.                                                         *)
(*                                                                         *)
(* A goroutine is its state and the lines of its stack: two for a frame,   *)
(* and at last two that tell who created it, the second of which is the    *)
(* place.  The main goroutine, which nobody created, is left out.  A dump  *)
(* is cut off at the end of its buffer; here it fits.                      *)
(***************************************************************************)
EXTENDS Integers, Sequences, FiniteSets, FiniteSetsExt, SequencesExt, GoData

CONSTANTS StackDumps,    \* goroutines as they may be dumped
          GroupsAsked,   \* what top_n may be
          MaxGoroutines  \* bound: goroutines at a time

CreatedBy == "created by"   \* how the line that names the creator begins

ASSUME StacksAssumption ==
    /\ \A g \in StackDumps :
          /\ g.lines \in Seq(UNION {ToSet(h.lines) : h \in StackDumps})
          /\ Len(g.lines) >= 4
          /\ \A i \in DOMAIN g.lines : g.lines[i] = CreatedBy <=> i = Len(g.lines) - 1
    /\ GroupsAsked \subseteq Nat \ {0}
    /\ MaxGoroutines \in Nat

VARIABLES
    running,   \* the goroutines, in the order of the dump
    dumped,    \* what a tool call works on
    grouping   \* the last answer

groupVars == <<running, dumped, grouping>>

NoDump     == [tool |-> "none"]
NoGrouping == [tool |-> "none"]

GroupInit ==
    /\ running = <<>>
    /\ dumped = NoDump
    /\ grouping = NoGrouping

-----------------------------------------------------------------------------
(* The program.                                                            *)

GoroutineStarts(g) ==
    /\ Len(running) < MaxGoroutines
    /\ running' = Append(running, g)
    /\ grouping' = NoGrouping
    /\ UNCHANGED dumped

GoroutineEnds(i) ==
    /\ running' = RemoveAt(running, i)
    /\ grouping' = NoGrouping
    /\ UNCHANGED dumped

-----------------------------------------------------------------------------
(* groupGoroutineStacks and analyzeGoroutineStates.                        *)

OwnLines(lines) == Filtered(lines, {i \in DOMAIN lines : lines[i] # CreatedBy})

\* Mutant: all lines but the one that names the creator.
Signature_All(lines) == OwnLines(lines)

\* The first three of them.
Signature(lines) == SubSeq(OwnLines(lines), 1, Min({3, Len(OwnLines(lines))}))

\* Mutant: a map entry is replaced.
AddToGroup_Forgets(groups, g) ==
    Put(groups, Signature(g.lines), [count |-> 1, state |-> g.state, first |-> Signature(g.lines)])

\* A group has the state of its first goroutine.
AddToGroup(groups, g) ==
    LET sig == Signature(g.lines)
    IN  Put(groups, sig, IF sig \in DOMAIN groups
                         THEN [groups[sig] EXCEPT !.count = @ + 1]
                         ELSE [count |-> 1, state |-> g.state, first |-> sig])

Groups(dump) ==
    LET groups == FoldLeft(AddToGroup, <<>>, dump) IN {groups[sig] : sig \in DOMAIN groups}

CountState(counts, g) ==
    Put(counts, g.state, (IF g.state \in DOMAIN counts THEN counts[g.state] ELSE 0) + 1)

-----------------------------------------------------------------------------
\* captureAllGoroutineStacks stops the program while it writes.
TakeDump(tool) ==
    /\ dumped = NoDump
    /\ dumped' = [tool |-> tool, dump |-> running]
    /\ grouping' = NoGrouping
    /\ UNCHANGED running

\* Groups of one size come in any order.
TellGroups(n) ==
    /\ dumped.tool = "get_goroutine_stacks"
    /\ \E order \in SetToSeqs(Groups(dumped.dump)) :
          /\ \A i, j \in DOMAIN order : i < j => order[i].count >= order[j].count
          /\ LET top == SubSeq(order, 1, Min({n, Len(order)}))
             IN  grouping' = [tool |-> dumped.tool, dump |-> dumped.dump, asked |-> n,
                              total |-> Len(running), unique |-> Len(top), top |-> top]
    /\ dumped' = NoDump
    /\ UNCHANGED running

TellStates ==
    /\ dumped.tool = "get_goroutine_states"
    /\ grouping' = [tool |-> dumped.tool, dump |-> dumped.dump, total |-> Len(running),
                    states |-> FoldLeft(CountState, <<>>, dumped.dump)]
    /\ dumped' = NoDump
    /\ UNCHANGED running

GroupNext ==
    \/ \E g \in StackDumps : GoroutineStarts(g)
    \/ \E i \in DOMAIN running : GoroutineEnds(i)
    \/ \E tool \in {"get_goroutine_stacks", "get_goroutine_states"} : TakeDump(tool)
    \/ \E n \in GroupsAsked : TellGroups(n)
    \/ TellStates

GroupSpec == GroupInit /\ [][GroupNext]_groupVars

-----------------------------------------------------------------------------
(* Properties.                                                             *)

GroupTypeOK ==
    /\ running \in Seq(StackDumps) /\ Len(running) <= MaxGoroutines
    /\ dumped.tool \in {"none", "get_goroutine_stacks", "get_goroutine_states"}

\* The lines of a stack's frames.
Frames(lines) == SubSeq(lines, 1, Len(lines) - 2)

HowMany(dump, Has(_)) == Cardinality({i \in DOMAIN dump : Has(dump[i])})

\* What is told of the stacks is true of one moment, whatever starts or ends
\* meanwhile.  A group shown has the goroutines whose stacks begin alike, and
\* the state of one of them; no goroutine is in two groups, and a group left
\* out is no larger.  Goroutines whose stacks have several frames, all alike,
\* are in one group, whoever created them.  If nothing was left out, the groups
\* make up the dump.
GroupsMakeUpDump ==
    grouping.tool = "get_goroutine_stacks" =>
        LET dump == grouping.dump
            top  == grouping.top
            Begins(g, first) == SubSeq(OwnLines(g.lines), 1, Len(first)) = first
        IN  /\ \A k \in DOMAIN top :
                  /\ top[k].count = HowMany(dump, LAMBDA g : Begins(g, top[k].first))
                  /\ \E i \in DOMAIN dump : Begins(dump[i], top[k].first)
                                             /\ top[k].state = dump[i].state
            /\ \A k, l \in DOMAIN top : k < l => /\ top[k].first # top[l].first
                                                  /\ top[k].count >= top[l].count
            /\ \A i \in DOMAIN dump :
                  LET frames == Frames(dump[i].lines)
                      alike  == HowMany(dump, LAMBDA g : Frames(g.lines) = frames)
                  IN  Len(frames) >= 4 => \E k \in DOMAIN top : top[k].count >= alike
            /\ Len(top) < grouping.asked
                  => Total([k \in DOMAIN top |-> top[k].count]) = Len(dump)

\* And the states add up to the goroutines of the dump.
StatesAddUp ==
    grouping.tool = "get_goroutine_states" =>
        Total(grouping.states) = Len(grouping.dump)

GroupsRight == GroupsMakeUpDump /\ StatesAddUp
=============================================================================
