------------------------------ MODULE Catalog ------------------------------
(***************************************************************************)
(* What the resources promise to whoever links to one: an address leads to *)
(* one page; the page at an address is by the author who opened it, and    *)
(* keeps the address through every change of its text, its category and    *)
(* its date, and while it is hidden; it goes only when it is removed, or   *)
(* its author leaves.  A page is filed under a category that exists.       *)
(*                                                                         *)
(* There are no identities here, no requests, and nothing a request has    *)
(* read before: a page is what is found at its address, and each step      *)
(* happens at once.                                                        *)
(***************************************************************************)
CONSTANTS Founders, Topics

VARIABLES
  pages,    \* [address, author, topic, since]; the last tells hidden pages from others
  authors,
  topics    \* the categories there are

vars == <<pages, authors, topics>>

Init ==
  /\ pages = {}
  /\ authors = Founders
  /\ topics = Topics

\* A page appears, at an address that leads nowhere so far.
Open(p) ==
  /\ \A q \in pages : q.address # p.address
  /\ p.author \in authors
  /\ p.topic \in topics
  /\ pages' = pages \cup {p}
  /\ UNCHANGED <<authors, topics>>

\* It is changed, shown or hidden: where it is found and whose it is stay.
Change(p, q) ==
  /\ q.address = p.address
  /\ q.author = p.author
  /\ q.topic \in topics
  /\ pages' = (pages \ {p}) \cup {q}
  /\ UNCHANGED <<authors, topics>>

Remove(p) ==
  /\ pages' = pages \ {p}
  /\ UNCHANGED <<authors, topics>>

\* An author leaves with all their pages, and nobody else's.
Leave(a) ==
  /\ authors' = authors \ {a}
  /\ pages' = {p \in pages : p.author # a}
  /\ UNCHANGED topics

AddTopic(t) ==
  /\ topics' = topics \cup {t}
  /\ UNCHANGED <<pages, authors>>

\* A category goes while no page is filed under it, hidden pages included.
DropTopic(t) ==
  /\ \A p \in pages : p.topic # t
  /\ topics' = topics \ {t}
  /\ UNCHANGED <<pages, authors>>

\* Pages and categories that appear may be any; they are named as those that
\* are there after the step.
Next ==
  \/ \E q \in pages' : Open(q) \/ \E p \in pages : Change(p, q)
  \/ \E p \in pages : Remove(p)
  \/ \E a \in authors : Leave(a)
  \/ \E t \in topics' : AddTopic(t)
  \/ \E t \in topics : DropTopic(t)

Spec == Init /\ [][Next]_vars

-----------------------------------------------------------------------------
\* An address leads to one page, which has its author and its category.
Sound ==
  /\ \A p, q \in pages : p.address = q.address => p = q
  /\ \A p \in pages : p.author \in authors /\ p.topic \in topics

\* A page that is found where one was is the same author's, unless there was
\* none in between: no step replaces one by somebody else's.
AddressesStay ==
  [][\A p \in pages, q \in pages' : p.address = q.address => p.author = q.author]_vars
=============================================================================
