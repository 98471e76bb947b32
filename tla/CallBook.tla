------------------------------ MODULE CallBook ------------------------------
(***************************************************************************)
(* What the call queue promises of every call, with nothing of its lock,   *)
(* its pump or its store: a call is asked for, waits or does not, and is   *)
(* dialed or given up, once and for good.  A call is dialed at once only   *)
(* while nobody waits, and the calls that wait are dialed in the order in  *)
(* which they began to wait, save those set aside for a while because      *)
(* their owner was on the phone as often as allowed.                       *)
(***************************************************************************)
EXTENDS Naturals, FiniteSets

CONSTANTS Calls, Keys, Owner, Limit, NoCall

VARIABLES
  key,      \* what a call is for, once it is asked for
  book,     \* where a call is in its life
  rank,     \* when it began to wait
  aside,    \* the waiting calls set aside
  talking,  \* the calls that occupy a line
  lines     \* how many lines there are

vars == <<key, book, rank, aside, talking, lines>>

Waiting == {c \in Calls : book[c] = "waiting"}

Init ==
  /\ key = [c \in Calls |-> NoCall]
  /\ book = [c \in Calls |-> "open"]
  /\ rank = [c \in Calls |-> 0]
  /\ aside = {} /\ talking = {}
  /\ lines \in Nat \ {0}

Ask(c) ==
  /\ book[c] = "open"
  /\ \E k \in Keys : key' = [key EXCEPT ![c] = k]
  /\ UNCHANGED <<book, rank, aside, talking, lines>>

\* A call waits behind all others.
Wait(c) ==
  /\ book[c] = "open"
  /\ book' = [book EXCEPT ![c] = "waiting"]
  /\ rank' = [rank EXCEPT ![c] = rank'[c]]
  /\ \A d \in Waiting : rank[d] < rank'[c]
  /\ UNCHANGED <<key, aside, talking, lines>>

\* A line is taken.
Dial(c) ==
  /\ Cardinality(talking) < lines
  /\ talking' = talking \cup {c}
  /\ book' = [book EXCEPT ![c] = "dialed"]
  /\ UNCHANGED <<key, rank, aside, lines>>

DialNow(c) == book[c] = "open" /\ Waiting = {} /\ Dial(c)

DialNext(c) ==
  /\ c \in Waiting \ aside
  /\ \A d \in Waiting \ aside : d # c => rank[c] < rank[d]
  /\ Dial(c)

\* The owner has as many calls on the phone as are allowed.
AtLimit(c) ==
  ~(Cardinality({d \in talking : Owner[key[d]] = Owner[key[c]]}) < Limit[Owner[key[c]]])

SetAside(c) ==
  /\ c \in Waiting \ aside
  /\ \A d \in Waiting \ aside : d # c => rank[c] < rank[d]
  /\ AtLimit(c)
  /\ aside' = aside \cup {c}
  /\ UNCHANGED <<key, book, rank, talking, lines>>

TakeBack(c) ==
  /\ c \in aside /\ aside' = aside \ {c}
  /\ UNCHANGED <<key, book, rank, talking, lines>>

Gone(S) ==
  /\ \A c \in S : book[c] \in {"open", "waiting"}
  /\ book' = [c \in Calls |-> IF c \in S THEN "gone" ELSE book[c]]
  /\ aside' = aside \ S

\* Refused, a duplicate, removed by its owner, skipped or lost.
GiveUp(c) == Gone({c}) /\ UNCHANGED <<key, rank, talking, lines>>

HangUp(c) ==
  /\ c \in talking /\ talking' = talking \ {c}
  /\ UNCHANGED <<key, book, rank, aside, lines>>

\* A crash loses some calls, and hangs up all.
Restart ==
  /\ \E S \in SUBSET Calls : Gone(S) /\ aside \subseteq S
  /\ talking' = {} /\ lines' \in Nat \ {0}
  /\ UNCHANGED <<key, rank>>

Next ==
  \/ \E c \in Calls : \/ Ask(c) \/ Wait(c) \/ DialNow(c) \/ DialNext(c) \/ SetAside(c)
                      \/ TakeBack(c) \/ GiveUp(c) \/ HangUp(c)
  \/ Restart

Spec == Init /\ [][Next]_vars
=============================================================================
