------------------------------- MODULE Directory -------------------------------
(***************************************************************************)
(* What the server promises its users, with nothing of threads, packets    *)
(* and states: who is there, under which name, and what the others are     *)
(* told of it.                                                             *)
(*                                                                         *)
(* A client joins once.  It gets one name, for good, whose password it has *)
(* shown, and which no member has.  It leaves only when its connection is  *)
(* lost, or with all others.  Whoever has been told to go hears nothing    *)
(* more; the others hear of members the name they have, and that somebody  *)
(* is gone only when the connection is, or the server is closing.  What is *)
(* told to a client that has no name yet may not reach it.                 *)
(***************************************************************************)
EXTENDS TLAPS

CONSTANTS
  Clients,   \* who may ever connect
  Names,     \* user names
  NoName,    \* the name of a client that has not logged in
  Offline,   \* what is told of a client that is gone
  Unknown    \* what is known of a client nothing has been told of

VARIABLES
  joined,     \* the clients that have ever been members
  members,    \* the members
  lost,       \* the clients whose connection is lost
  name,       \* the name of each client, or NoName
  shown,      \* the names whose password each client has shown
  told,       \* what each client was last told of each other
  dismissed,  \* the clients that have been told to go
  closing     \* the server is taking leave of all members

dirVars == <<joined, members, lost, name, shown, told, dismissed, closing>>

Init ==
  /\ joined = {} /\ members = {} /\ lost = {} /\ dismissed = {}
  /\ name = [c \in Clients |-> NoName]
  /\ shown = [c \in Clients |-> {}]
  /\ told = [c \in Clients |-> [d \in Clients |-> Unknown]]
  /\ closing = FALSE

Join(c) ==
  /\ ~closing /\ c \notin joined
  /\ joined' = joined \cup {c}
  /\ members' = members \cup {c}
  /\ UNCHANGED <<lost, name, shown, told, closing>>

\* The client sends a name with the right password.
Show(c, n) ==
  /\ c \in joined \ lost
  /\ shown' = [shown EXCEPT ![c] = @ \cup {n}]
  /\ UNCHANGED <<joined, members, lost, name, told, closing>>

LogIn(c, n) ==
  /\ c \in members /\ name[c] = NoName
  /\ n \in shown[c] /\ \A d \in members : name[d] # n
  /\ name' = [name EXCEPT ![c] = n]
  /\ UNCHANGED <<joined, members, lost, shown, told, closing>>

Disconnect(c) ==
  /\ c \in joined
  /\ lost' = lost \cup {c}
  /\ UNCHANGED <<joined, members, name, shown, told, closing>>

Gone(d) == d \in lost \/ closing

\* What may be told of d.
Truth(d) ==
  (IF d \in members THEN {name[d]} ELSE {})
    \cup (IF Gone(d) THEN {Offline} ELSE {})

\* Some are told of some; nobody is told of itself.
Tell ==
  /\ told' \in [Clients -> [Clients -> Names \cup {NoName, Offline, Unknown}]]
  /\ \A r, d \in Clients :
       told'[r][d] # told[r][d] =>
         /\ r \in joined \ dismissed /\ d \in joined /\ r # d
         /\ told'[r][d] \in Truth(d)
  /\ UNCHANGED <<joined, members, lost, name, shown, closing>>

\* What a client without a name was told has not reached it.
Miss(c) ==
  /\ c \in members /\ name[c] = NoName
  /\ told' = [told EXCEPT ![c] = [d \in Clients |-> Unknown]]
  /\ UNCHANGED <<joined, members, lost, name, shown, closing>>

Leave(c) ==
  /\ Gone(c)
  /\ members' = members \ {c}
  /\ UNCHANGED <<joined, lost, name, shown, told, closing>>

Close ==
  /\ closing' = TRUE
  /\ UNCHANGED <<joined, members, lost, name, shown, told>>

Clear ==
  /\ closing /\ members' = {}
  /\ UNCHANGED <<joined, lost, name, shown, told, closing>>

\* Any client may be told to go, at any time.
Dismiss == UNCHANGED <<joined, members, lost, name, shown, told, closing>>

Next ==
  /\ dismissed \subseteq dismissed'
  /\ \/ Tell \/ Close \/ Clear \/ Dismiss
     \/ \E c \in Clients :
          \/ Join(c) \/ Disconnect(c) \/ Miss(c) \/ Leave(c)
          \/ \E n \in Names \cup {NoName} : Show(c, n) \/ LogIn(c, n)

Spec == Init /\ [][Next]_dirVars

-----------------------------------------------------------------------------
(* What follows from the promise, for every server that keeps it *)

DirTypes ==
  /\ members \subseteq joined /\ joined \subseteq Clients
  /\ name \in [Clients -> Names \cup {NoName}]
  /\ shown \in [Clients -> SUBSET (Names \cup {NoName})]
  /\ told \in [Clients -> [Clients -> Names \cup {NoName, Offline, Unknown}]]

\* No two members have one name.
Distinct ==
  \A c, d \in members : c # d /\ name[c] # NoName => name[c] # name[d]

\* A name is one its owner has shown the password of, and whoever has been told
\* a name of a client has been told that one.
Genuine ==
  /\ \A c \in Clients : name[c] # NoName => name[c] \in shown[c]
  /\ \A r, d \in Clients : told[r][d] \in {NoName, Offline, Unknown, name[d]}

\* Who has not joined has no name.
Strangers == \A c \in Clients \ joined : name[c] = NoName

LEMMA DirStep ==
  ASSUME DirTypes, Distinct, Genuine, Strangers, [Next]_dirVars
  PROVE  DirTypes' /\ Distinct' /\ Genuine' /\ Strangers'
<1> USE DEF DirTypes, Distinct, Genuine, Strangers
<1>1. ASSUME NEW c \in Clients, Join(c)
      PROVE  DirTypes' /\ Distinct' /\ Genuine' /\ Strangers'
  BY <1>1 DEF Join
<1>2. ASSUME NEW c \in Clients, NEW n \in Names \cup {NoName}, Show(c, n)
      PROVE  DirTypes' /\ Distinct' /\ Genuine' /\ Strangers'
  BY <1>2 DEF Show
<1>3. ASSUME NEW c \in Clients, NEW n \in Names \cup {NoName}, LogIn(c, n)
      PROVE  DirTypes' /\ Distinct' /\ Genuine' /\ Strangers'
  BY <1>3 DEF LogIn
<1>4. ASSUME NEW c \in Clients, Disconnect(c) \/ Leave(c)
      PROVE  DirTypes' /\ Distinct' /\ Genuine' /\ Strangers'
  BY <1>4 DEF Disconnect, Leave
<1>5. ASSUME NEW c \in Clients, Miss(c)
      PROVE  DirTypes' /\ Distinct' /\ Genuine' /\ Strangers'
  BY <1>5 DEF Miss
<1>6. CASE Tell
  <2>1. \A r, d \in Clients : told'[r][d] \in {told[r][d], name[d], Offline}
    BY <1>6 DEF Tell, Truth
  <2>2. UNCHANGED <<joined, members, name, shown>>
    BY <1>6 DEF Tell
  <2> QED
    BY <1>6, <2>1, <2>2 DEF Tell
<1>7. CASE Close \/ Clear \/ Dismiss \/ UNCHANGED dirVars
  BY <1>7 DEF Close, Clear, Dismiss, dirVars
<1> QED
  BY <1>1, <1>2, <1>3, <1>4, <1>5, <1>6, <1>7 DEF Next

\* Under one name there is one member, it has shown that name's password, and
\* nobody has been told another name of it.
THEOREM NamesCanBeTrusted == Spec => [](Distinct /\ Genuine)
<1>1. Init => DirTypes /\ Distinct /\ Genuine /\ Strangers
  BY DEF Init, DirTypes, Distinct, Genuine, Strangers
<1> QED
  BY <1>1, DirStep, PTL DEF Spec

=============================================================================
