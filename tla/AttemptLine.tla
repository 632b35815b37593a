------------------------------- MODULE AttemptLine -------------------------------
(***************************************************************************)
(* What the Research Queue promises: heavy research attempts stand in one  *)
(* line for the whole device.  Each joins it at most once, at its end; the *)
(* first in line is served, alone and to the end, before the next; the     *)
(* others may leave the line but never change their order or come back;    *)
(* and while the line is open, whoever is first does not stay there.       *)
(***************************************************************************)
EXTENDS Naturals, Sequences

CONSTANT Attempts

VARIABLES places,   \* every attempt that ever got a place, first to last
          waiting,  \* those that still stand in the line
          served,   \* the attempt being served, if any
          open      \* the device serves the line

vars == <<places, waiting, served, open>>

Init == places = << >> /\ waiting = {} /\ served = {} /\ open \in BOOLEAN

Known == {places[i] : i \in DOMAIN places}

Join(a) ==
  /\ a \notin Known
  /\ places' = Append(places, a)
  /\ waiting' = waiting \cup {a}
  /\ UNCHANGED <<served, open>>

\* An attempt that ended before it reached the line.
PassBy(a) ==
  /\ a \notin Known
  /\ places' = Append(places, a)
  /\ UNCHANGED <<waiting, served, open>>

First(a) ==
  \E i \in DOMAIN places : /\ places[i] = a /\ a \in waiting
                           /\ \A j \in DOMAIN places : j < i => places[j] \notin waiting

Serve ==
  /\ served = {}
  /\ \E a \in waiting : First(a) /\ served' = {a} /\ waiting' = waiting \ {a}
  /\ UNCHANGED <<places, open>>

Finish == served # {} /\ served' = {} /\ UNCHANGED <<places, waiting, open>>

\* Some leave the line; a cancelled one alone, a cancellation of all together.
Leave == waiting' \subseteq waiting /\ UNCHANGED <<places, served, open>>

\* A reset takes whoever waits and whoever is served.
Clear == waiting' = {} /\ served' = {} /\ UNCHANGED <<places, open>>

Close == open' = FALSE /\ UNCHANGED <<places, waiting, served>>

\* The device starts again: whatever it served when it ended is not resumed.
Reopen == open' = TRUE /\ served' = {} /\ UNCHANGED <<places, waiting>>

Next ==
  \/ \E a \in Attempts : Join(a) \/ PassBy(a)
  \/ Serve \/ Finish \/ Leave \/ Clear \/ Close \/ Reopen

\* One line, in the order in which its attempts joined.
Orderly == Init /\ [][Next]_vars

\* While the line stays open nobody is first forever.
Fairness == \A a \in Attempts : []<>(~open \/ ~First(a))

Spec == Orderly /\ Fairness

===============================================================================
