------------------------------ MODULE ClientList ------------------------------
(***************************************************************************)
(* What the parts of the server agree on about m_Clients, whatever else    *)
(* they do: who may change it, a client's m_Link and its destroyed state,  *)
(* and under m_CSClients or not.  ServerCore and Links, which look at the  *)
(* same threads with different eyes, both keep to it.                      *)
(***************************************************************************)
CONSTANT Clients

VARIABLES
  listed,    \* m_Clients
  entering,  \* the client that is listed and has yet to get its link, if any
  linked,    \* the clients whose m_Link is set
  dead,      \* the clients that are being destroyed, or are destroyed
  holder     \* the thread that holds m_CSClients

listVars == <<listed, entering, linked, dead, holder>>

Free == "free"

Init ==
  listed = {} /\ entering = {} /\ linked = {} /\ dead = {} /\ holder = Free

\* The mutex: a thread takes it when it is free, and gives it back.
Take ==
  /\ holder = Free
  /\ holder' \in {"tick", "auth", "main"}
  /\ UNCHANGED <<listed, entering, linked, dead>>

Release == holder' = Free /\ UNCHANGED <<listed, entering, linked, dead>>

\* A new client enters without a link, one at a time; nothing is known of it
\* before.
Enter(c) ==
  /\ holder = Free /\ entering = {}
  /\ c \notin listed \cup linked \cup dead
  /\ listed' = listed \cup {c}
  /\ entering' = {c}
  /\ UNCHANGED <<linked, dead, holder>>

\* It gets its link, whoever holds the mutex.
Link(c) ==
  /\ c \in entering
  /\ entering' = {}
  /\ linked' = linked \cup {c}
  /\ UNCHANGED <<listed, dead, holder>>

\* The link goes first, or together with the client's life, and for good.
\* Only who is in m_Clients, and has had a link, can still be destroyed.
Unlink(c) == linked' = linked \ {c} /\ UNCHANGED <<listed, entering, dead, holder>>

Kill(c) ==
  /\ c \in listed \ entering
  /\ linked' = linked \ {c}
  /\ dead' = dead \cup {c}
  /\ UNCHANGED <<listed, entering, holder>>

\* A thread that is at work on the client under m_CSClients overwrites the
\* state of a dead one that is still listed.  It gets no link by that.
Revive(c) ==
  /\ holder \in {"tick", "auth"} /\ c \in listed
  /\ dead' = dead \ {c}
  /\ UNCHANGED <<listed, entering, linked, holder>>

\* The tick thread removes dead clients, one by one.
Remove(c) ==
  /\ holder = "tick" /\ c \in dead
  /\ listed' = listed \ {c}
  /\ UNCHANGED <<entering, linked, dead, holder>>

\* A shutdown drops them all, once they are dead.
Clear ==
  /\ holder = "main" /\ listed \subseteq dead
  /\ listed' = {}
  /\ holder' = Free
  /\ UNCHANGED <<entering, linked, dead>>

Next ==
  \/ Take \/ Release \/ Clear
  \/ \E c \in Clients :
       Enter(c) \/ Link(c) \/ Unlink(c) \/ Kill(c) \/ Revive(c) \/ Remove(c)

Spec == Init /\ [][Next]_listVars

=============================================================================
