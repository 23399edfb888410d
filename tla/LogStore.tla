----------------------------- MODULE LogStore ------------------------------
(***************************************************************************)
(* The log store as its readers see it: a segment file per container and   *)
(* day, which writers create and append to, and which retention and the    *)
(* disk guard remove while readers have them open.  SegmentStore models    *)
(* who may do what when; here any of it may happen at any time.            *)
(*                                                                         *)
(* A segment is named <<day, container>>.  Its file is told apart from one *)
(* of that name made after it was removed, and keeps its lines for those   *)
(* who have it open.  A line is its number, in the order of writing, and   *)
(* its timestamp; the day of the timestamp decides the segment.            *)
(***************************************************************************)
EXTENDS Integers, Sequences, FiniteSets

CONSTANTS
    Containers,     \* the containers of the pod, as numbers: their names' order
    MaxTime,        \* timestamps are 1..MaxTime
    DayLength,      \* so many of them are one day
    FirstLines,     \* bound on the lines stored at first
    MaxChanges      \* bound on the segments created and removed, and the lines written

ASSUME StoreAssumption ==
    /\ Containers \subseteq Nat /\ Containers # {}
    /\ MaxTime \in Nat \ {0} /\ DayLength \in Nat \ {0}
    /\ FirstLines \in Nat /\ MaxChanges \in Nat

Times    == 1..MaxTime
Day(t)   == (t - 1) \div DayLength
Days     == {Day(t) : t \in Times}
MaxLines == FirstLines + MaxChanges
Segments == Days \X Containers
Lines    == [id : 1..MaxLines, ts : Times]

\* The order of tuples of numbers: of segments (by day, then container), of
\* positions, and of lines by time.
Below(a, b) ==
    \E i \in 1..Len(a) : a[i] < b[i] /\ \A j \in 1..(i - 1) : a[j] = b[j]

InOrder(S) ==
    [i \in 1..Cardinality(S) |-> CHOOSE x \in S : Cardinality({y \in S : Below(y, x)}) = i - 1]

VARIABLES
    seg,            \* segment -> which of the files of its name it is
    data,           \* <<segment, file>> -> its lines
    written,        \* the number of the last line
    changes

storeVars == <<seg, data, written, changes>>

Content(s) == data[<<s, seg[s]>>]

\* Where there are lines: day, container, file, index.
Positions == {p \in Days \X Containers \X (1..MaxChanges + 1) \X (1..MaxLines) :
                LET f == <<<<p[1], p[2]>>, p[3]>> IN f \in DOMAIN data /\ p[4] \in DOMAIN data[f]}
At(p)  == data[<<<<p[1], p[2]>>, p[3]>>][p[4]]
Stored == {p \in Positions : <<p[1], p[2]>> \in DOMAIN seg /\ seg[<<p[1], p[2]>>] = p[3]}

StoreTypeOK ==
    /\ DOMAIN seg \subseteq Segments /\ \A s \in DOMAIN seg : <<s, seg[s]>> \in DOMAIN data
    /\ DOMAIN data \subseteq Segments \X (1..(MaxChanges + 1))
    /\ \A f \in DOMAIN data : data[f] \in Seq(Lines)
    /\ written \in FirstLines..MaxLines /\ changes \in 0..MaxChanges

\* Any lines in any segments, in any order (a container does not have to log in
\* time order), and a segment that is still empty.  Readers do not see in which
\* order the segments were written.
StoreInit ==
    \E n \in 0..FirstLines : \E line \in [1..n -> Containers \X Times] :
    \E new \in {{}} \cup {{s} : s \in Segments} :
        LET segment(i) == <<Day(line[i][2]), line[i][1]>>
            names == new \cup {segment(i) : i \in 1..n}
            own(s) == {i \in 1..n : segment(i) = s}
            lines(s) == [k \in 1..Cardinality(own(s)) |->
                LET i == CHOOSE i \in own(s) : Cardinality({j \in own(s) : j <= i}) = k
                IN  [id |-> i, ts |-> line[i][2]]]
        IN  /\ \A i, j \in 1..n : Below(segment(i), segment(j)) => i < j
            /\ \A i \in 1..n : segment(i) \notin new
            /\ seg = [s \in names |-> 1]
            /\ data = [f \in names \X {1} |-> lines(f[1])]
            /\ written = FirstLines /\ changes = 0

Change == changes < MaxChanges /\ changes' = changes + 1

\* rollToLocked: a file appears, empty.
CreateSegment(s) ==
    /\ s \notin DOMAIN seg /\ Change
    /\ LET file == 1 + Cardinality({f \in DOMAIN data : f[1] = s})
       IN  /\ seg' = [x \in DOMAIN seg \cup {s} |-> IF x = s THEN file ELSE seg[x]]
           /\ data' = [f \in DOMAIN data \cup {<<s, file>>} |->
                        IF f = <<s, file>> THEN <<>> ELSE data[f]]
    /\ UNCHANGED written

\* WriteWithLocation: a line is appended.
AppendLine(c, t) ==
    /\ <<Day(t), c>> \in DOMAIN seg /\ Change
    /\ written' = written + 1
    /\ data' = [data EXCEPT ![<<<<Day(t), c>>, seg[<<Day(t), c>>]>>] =
                    Append(@, [id |-> written + 1, ts |-> t])]
    /\ UNCHANGED seg

\* Retention or the disk guard removes a segment.
DeleteSegment(s) ==
    /\ s \in DOMAIN seg /\ Change
    /\ seg' = [x \in DOMAIN seg \ {s} |-> seg[x]]
    /\ UNCHANGED <<data, written>>

StoreNext ==
    \/ \E s \in Segments : CreateSegment(s) \/ DeleteSegment(s)
    \/ \E c \in Containers, t \in Times : AppendLine(c, t)
=============================================================================
