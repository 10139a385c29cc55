---------------------------- MODULE MCServerCore ----------------------------
(* Small instances of ServerCore for TLC. *)
EXTENDS ServerCore

CONSTANTS alice, bob

LoginState ==
  [type |-> "StatusRequest", next |-> psLogin, name |-> NoName, ok |-> FALSE]
Login(name, ok) == [type |-> "LoginInfo", name |-> name, ok |-> ok]

\* Peers that ask for the login state and log in, all as alice.
OneUser == [c \in Ids |-> {LoginState, Login(alice, TRUE)}]

\* The first peer logs in as alice, the others as bob.
TwoUsers ==
  [c \in Ids |-> {LoginState, Login(IF c = 1 THEN alice ELSE bob, TRUE)}]

\* Logins that are granted, and those that are turned down.
AnyLogin ==
  [c \in Ids |-> {LoginState, Login(alice, TRUE), Login(NoName, TRUE),
                  Login(alice, FALSE)}]

\* A peer that sends anything, in any order.
AnyPackets ==
  [c \in Ids |->
    AnyLogin[c]
      \cup {Login(bob, TRUE),
            [type |-> "StatusRequest", next |-> 0, name |-> bob, ok |-> TRUE],
            [type |-> "Media", to |-> 1]}
      \cup {[type |-> t] : t \in {"StatusPing", "KeepAlive", "Empty", "Unknown"}}]

=============================================================================
