----------------------------- MODULE LineFeed ------------------------------
(***************************************************************************)
(* What a live tail promises of the lines it sends: each container's come  *)
(* one after another as they are in its files, and the files one after     *)
(* another, each from its first line; it goes back only in a container     *)
(* that has lost a segment.                                                *)
(***************************************************************************)
EXTENDS Integers

CONSTANTS
    Containers,
    Places          \* where a line is: <<day, file, index>>

VARIABLES
    last,           \* container -> where the last line sent is, or <<>>
    removed         \* the containers that have lost a segment

feedVars == <<last, removed>>

Init == last = [c \in Containers |-> <<>>] /\ removed = {}

Follows(c, place) ==
    \/ last[c] = <<>>
    \/ last[c][1] = place[1] /\ last[c][2] = place[2] /\ place[3] = last[c][3] + 1
    \/ place[3] = 1 /\ (place[1] > last[c][1] \/ c \in removed)

Send(c) ==
    \E place \in Places :
        Follows(c, place) /\ last' = [last EXCEPT ![c] = place] /\ UNCHANGED removed

Remove(c) == removed' = removed \cup {c} /\ UNCHANGED last

Next == \E c \in Containers : Send(c) \/ Remove(c)

Spec == Init /\ [][Next]_feedVars
=============================================================================
