---------------------------- MODULE FindingsBoard ----------------------------
(***************************************************************************)
(* What the exporter promises its dashboard (the header of main.go and the *)
(* metrics table of its README), with no poller, loop or lock in it: a     *)
(* board with one card per source.  A card is put up or refreshed with the *)
(* findings of some moment, never an earlier one than it already shows; it *)
(* is marked down without losing its findings; the date written on it is   *)
(* never later than its findings.  Each step touches one card, except that *)
(* a replaced process starts with an empty board.                          *)
(***************************************************************************)
EXTENDS Integers

CONSTANTS Name, MaxTime

Time == 0 .. MaxTime

VARIABLES truth, board

boardVars == <<truth, board>>

Card == [present : BOOLEAN, findings : Time, up : BOOLEAN, dataTime : Time]

Blank == [present |-> FALSE, findings |-> 0, up |-> FALSE, dataTime |-> 0]

Init ==
    /\ truth = [n \in Name |-> 1]
    /\ board = [n \in Name |-> Blank]

\* The world moves on.
Move(n) ==
    /\ \E t \in Time : t > truth[n] /\ truth' = [truth EXCEPT ![n] = t]
    /\ UNCHANGED board

\* A refresh succeeded.
Show(n) ==
    /\ \E v \in Time :
        /\ 0 < v /\ board[n].findings <= v /\ v <= truth[n]
        /\ board' = [board EXCEPT ![n] =
                        [present |-> TRUE, findings |-> v, up |-> TRUE,
                         dataTime |-> board[n].dataTime]]
    /\ UNCHANGED truth

\* A refresh failed: the findings stay, and the card says so.
Lose(n) ==
    /\ board' = [board EXCEPT ![n].present = TRUE, ![n].up = FALSE]
    /\ UNCHANGED truth

\* The card is dated.
Stamp(n) ==
    /\ board[n].present
    /\ \E t \in Time :
        /\ t <= board[n].findings
        /\ board' = [board EXCEPT ![n].dataTime = t]
    /\ UNCHANGED truth

Clear ==
    /\ board' = [n \in Name |-> Blank]
    /\ UNCHANGED truth

Next == Clear \/ \E n \in Name : Move(n) \/ Show(n) \/ Lose(n) \/ Stamp(n)

Spec == Init /\ [][Next]_boardVars
=============================================================================
