-------------------------- MODULE DurableRegister --------------------------
(***************************************************************************)
(* What a service expects of its database file: one value, replaced as a   *)
(* whole, that after a crash is the last value known to be durable or one  *)
(* published since; once an update has been acknowledged, no value that a  *)
(* crash can leave is without it.                                          *)
(***************************************************************************)
CONSTANTS Contents,   \* everything the file can hold
          Complete    \* those that are all of a database, as <<updates, content>>

VARIABLES value,   \* what is read now
          later,   \* what can be read after a crash
          acked    \* the updates acknowledged

vars == <<value, later, acked>>

Init == value \in Contents /\ later = {value} /\ acked = {}

Publish == \E c \in Complete :
             /\ acked \subseteq c[1]
             /\ value' = c[2] /\ later' = later \cup {c[2]}
             /\ UNCHANGED acked

Sync == later' = {value} /\ UNCHANGED <<value, acked>>

Acknowledge == \E c \in Complete :
                 /\ later = {value} /\ value = c[2]
                 /\ acked \subseteq acked' /\ acked' \subseteq c[1]
                 /\ UNCHANGED <<value, later>>

Crash == value' \in later /\ later' = {value'} /\ UNCHANGED acked

Next == Publish \/ Sync \/ Acknowledge \/ Crash

Spec == Init /\ [][Next]_vars
=============================================================================
