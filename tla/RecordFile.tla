----------------------------- MODULE RecordFile -----------------------------
(***************************************************************************)
(* What a tool expects of an account file it has locked: a table, edited   *)
(* in memory, that replaces the stored one as a whole when it is closed or *)
(* not at all.                                                             *)
(***************************************************************************)
CONSTANTS Keys, Values, Absent, Closed

VARIABLES stored, session

vars == <<stored, session>>

Tables == [Keys -> Values \cup {Absent}]

Init == stored \in Tables /\ session = Closed

Open == session = Closed /\ session' = stored /\ UNCHANGED stored

Edit == /\ session # Closed
        /\ \E k \in Keys, v \in Values \cup {Absent} : session' = [session EXCEPT ![k] = v]
        /\ UNCHANGED stored

Commit == session # Closed /\ stored' = session /\ session' = Closed

Abandon == session # Closed /\ session' = Closed /\ UNCHANGED stored

Next == Open \/ Edit \/ Commit \/ Abandon

Spec == Init /\ [][Next]_vars
=============================================================================
