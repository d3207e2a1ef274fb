------------------------------- MODULE Gloss -------------------------------
(***************************************************************************)
(* Glossary negotiation between two agents (adapters/mcp-bridge/src/       *)
(* gloss.ts): each may propose an abbreviation for a term of its own, the  *)
(* peer acknowledges, messages carry the tokens of active entries, and     *)
(* either side drops one again.                                            *)
(*                                                                         *)
(* The conversation is a channel of the two agents (drop() is offered for  *)
(* channels) or their direct messages (then Drop is not taken).  Any of    *)
(* its frames may be missing: the send throws (no socket, no key of the    *)
(* peer), the hub ignores a failed push of a channel post, or the peer's   *)
(* connection closes under it.  A frame pushed to the peer overtakes those *)
(* that wait in its mailbox for the next flush.                            *)
(*                                                                         *)
(* A message body is one term, said in full or as the token of an          *)
(* abbreviation.  An abbreviation is <<base, n>>: what genAbbrev derives   *)
(* from the term, then the same with a numeric suffix 2, 3, ...            *)
(*                                                                         *)
(* A term that sayTo may propose has been seen in MIN_MSGS messages; which *)
(* of the speaker's terms have is left open.  A proposal names one term,   *)
(* and one sayTo of an agent at a time waits for its proposal to be sent.  *)
(***************************************************************************)
EXTENDS Integers, Sequences

CONSTANTS
    Agent,      \* the two agents
    Proposer,   \* those whose messages bring up terms worth abbreviating
    Term,       \* the terms
    Base,       \* [Term -> base]  the consonant skeleton or the initials
    None,
    MaxCalls,   \* bound: calls of say and drop
    MaxSuffix   \* bound: abbreviations of one base

ASSUME GlossConstants ==
    /\ \E a, b \in Agent : a # b /\ Agent = {a, b}
    /\ Proposer \subseteq Agent
    /\ MaxCalls \in Nat /\ MaxSuffix \in Nat \ {0}

VARIABLES
    entry,     \* [Agent -> [Term -> [state, abbrev]]]  entries; "none" is no entry
    reverse,   \* [Agent -> [Abbrev -> Term or None]]   active abbreviation -> term
    dropped,   \* [Agent -> SUBSET Term]                never proposed again
    reserved,  \* [Agent -> SUBSET Abbrev]              never generated again
    saying,    \* [Agent -> Term or None]  sayTo awaits the send of its proposal
    wire,      \* [Agent -> Seq(frame)]    frames on their way to the agent
    called,    \* calls of say and drop so far
    wrong      \* history: a message was read as another term than was said

glossVars == <<entry, reverse, dropped, reserved, saying, wire, called, wrong>>

Abbrev == {Base[t] : t \in Term} \X (1..MaxSuffix)

\* None is told from terms and abbreviations, as undefined is from strings.
ASSUME NoneIsNothing == None \notin Term \cup Abbrev

NoEntry == [state |-> "none", abbrev |-> None]
Entry(state, b) == [state |-> state, abbrev |-> b]
Peer(a) == CHOOSE b \in Agent : b # a

GlossInit ==
    /\ entry = [a \in Agent |-> [t \in Term |-> NoEntry]]
    /\ reverse = [a \in Agent |-> [b \in Abbrev |-> None]]
    /\ dropped = [a \in Agent |-> {}]
    /\ reserved = [a \in Agent |-> {}]
    /\ saying = [a \in Agent |-> None]
    /\ wire = [a \in Agent |-> <<>>]
    /\ called = 0
    /\ wrong = FALSE

\* A frame as the peer's handleInbound sees it.
Gloss(act, t, b) == [act |-> act, term |-> t, abbrev |-> b]

\* Queue q with f in place n.
Into(q, n, f) ==
    [i \in 1..(Len(q) + 1) |-> IF i < n THEN q[i] ELSE IF i = n THEN f ELSE q[i - 1]]

\* What is on its way, given w, after a sent f: f as well, at the end or before
\* frames that it overtakes, or f was lost.
Sent(a, f, w) ==
    {w} \cup {[w EXCEPT ![Peer(a)] = Into(@, n, f)] : n \in 1..(Len(w[Peer(a)]) + 1)}

----------------------------------------------------------------------------
(* Speaking. *)

\* A mutation: suffixes count the entries that are active.
GenFromActive(a, t) ==
    {n \in 1..MaxSuffix : reverse[a][<<Base[t], n>>] = None /\
        \A m \in 1..(n - 1) : reverse[a][<<Base[t], m>>] # None}
\* genAbbrev: the first suffix of the base that was never used here.
Gen(a, t) ==
    {n \in 1..MaxSuffix : <<Base[t], n>> \notin reserved[a] /\
        \A m \in 1..(n - 1) : <<Base[t], m>> \in reserved[a]}

\* A mutation: the proposer uses its entry at once.
LiveAtOnce == "active"
Awaiting == "proposed"

\* sayTo up to its first send: a recurring term without an entry is proposed.
Propose(a, t) ==
    /\ a \in Proposer /\ called < MaxCalls /\ saying[a] = None
    /\ entry[a][t].state = "none" /\ t \notin dropped[a]
    /\ \E n \in Gen(a, t) :
         LET b == <<Base[t], n>> IN
         /\ reserved' = [reserved EXCEPT ![a] = @ \cup {b}]
         /\ entry' = [entry EXCEPT ![a][t] = Entry(Awaiting, b)]
         /\ \/ /\ wire' \in Sent(a, Gloss("propose", t, b), wire)
               /\ saying' = [saying EXCEPT ![a] = t]
            \/ UNCHANGED <<wire, saying>>    \* the send throws, and sayTo with it
    /\ called' = called + 1
    /\ UNCHANGED <<reverse, dropped, wrong>>

\* compact, then the message: what is on the wire for term t.
Compact(a, t) == IF entry[a][t].state = "active" THEN entry[a][t].abbrev ELSE None

Body(a, t) == wire' \in Sent(a, Gloss("msg", t, Compact(a, t)), wire)

\* The rest of sayTo, after the proposal went out.
SayRest(a) ==
    /\ saying[a] # None
    /\ Body(a, saying[a])
    /\ saying' = [saying EXCEPT ![a] = None]
    /\ UNCHANGED <<entry, reverse, dropped, reserved, called, wrong>>

\* sayTo of a term that is not up for a proposal.
Say(a, t) ==
    /\ called < MaxCalls
    /\ Body(a, t)
    /\ called' = called + 1
    /\ UNCHANGED <<entry, reverse, dropped, reserved, saying, wrong>>

----------------------------------------------------------------------------
(* Dropping. *)

\* deactivate: a token this side does not know is passed over.
Deactivate(a, b) ==
    LET t == reverse[a][b] IN
    IF t = None THEN UNCHANGED <<entry, reverse, dropped, reserved>>
    ELSE /\ entry' = [entry EXCEPT ![a][t] = NoEntry]
         /\ reverse' = [reverse EXCEPT ![a][b] = None]
         /\ dropped' = [dropped EXCEPT ![a] = @ \cup {t}]
         /\ UNCHANGED reserved

\* drop() of any token: deactivate here, then tell the peer, which may fail.
Drop(a, b) ==
    /\ called < MaxCalls
    /\ Deactivate(a, b)
    /\ wire' \in Sent(a, Gloss("drop", None, b), wire)
    /\ called' = called + 1
    /\ UNCHANGED <<saying, wrong>>

----------------------------------------------------------------------------
(* Listening: handleInbound of the first frame. *)

\* Entry, reverse and reserved once the agent holds t under b.
Activate(a, t, b) ==
    /\ entry' = [entry EXCEPT ![a][t] = Entry("active", b)]
    /\ reverse' = [reverse EXCEPT ![a][b] = t]
    /\ reserved' = [reserved EXCEPT ![a] = @ \cup {b}]

Rest(a) == [wire EXCEPT ![a] = Tail(@)]

\* A proposal: an active entry of ours is authoritative, anything else yields.
\* A failure to send the ack is swallowed.
Proposed(a, t, b) ==
    LET ours == entry[a][t]
        settled == IF ours.state = "active" THEN ours.abbrev ELSE b IN
    /\ IF ours.state = "active" THEN UNCHANGED <<entry, reverse, reserved>>
                                ELSE Activate(a, t, b)
    /\ wire' \in Sent(a, Gloss("ack", t, settled), Rest(a))
    /\ UNCHANGED <<dropped, saying, called, wrong>>

\* An ack of an entry that was dropped, or settled otherwise, is passed over.
Acked(a, t, b) ==
    /\ IF entry[a][t].state = "proposed"
         THEN Activate(a, t, b)
         ELSE UNCHANGED <<entry, reverse, reserved>>
    /\ wire' = Rest(a)
    /\ UNCHANGED <<dropped, saying, called, wrong>>

\* expand: an unknown token stays as it is.
Expand(a, b) == reverse[a][b]

Heard(a, t, b) ==
    /\ wrong' = (wrong \/ (b # None /\ Expand(a, b) \notin {None, t}))
    /\ wire' = Rest(a)
    /\ UNCHANGED <<entry, reverse, dropped, reserved, saying, called>>

Dropped(a, b) ==
    /\ Deactivate(a, b)
    /\ wire' = Rest(a)
    /\ UNCHANGED <<saying, called, wrong>>

Receive(a) ==
    /\ wire[a] # <<>>
    /\ LET f == Head(wire[a]) IN
         \/ f.act = "propose" /\ Proposed(a, f.term, f.abbrev)
         \/ f.act = "ack" /\ Acked(a, f.term, f.abbrev)
         \/ f.act = "msg" /\ Heard(a, f.term, f.abbrev)
         \/ f.act = "drop" /\ Dropped(a, f.abbrev)

GlossNext ==
    \E a \in Agent :
        \/ \E t \in Term : Propose(a, t) \/ Say(a, t)
        \/ SayRest(a)
        \/ \E b \in Abbrev : Drop(a, b)
        \/ Receive(a)

GlossSpec == GlossInit /\ [][GlossNext]_glossVars

----------------------------------------------------------------------------
(* Properties. *)

\* Frames by kind; a drop names no term, a message may be said in full.
Frame ==
    [act : {"propose", "ack"}, term : Term, abbrev : Abbrev]
        \cup [act : {"msg"}, term : Term, abbrev : Abbrev \cup {None}]
        \cup [act : {"drop"}, term : {None}, abbrev : Abbrev]

GlossTypeOK ==
    /\ entry \in [Agent -> [Term -> {NoEntry} \cup [state : {"proposed", "active"}, abbrev : Abbrev]]]
    /\ reverse \in [Agent -> [Abbrev -> Term \cup {None}]]
    /\ dropped \in [Agent -> SUBSET Term] /\ reserved \in [Agent -> SUBSET Abbrev]
    /\ saying \in [Agent -> Term \cup {None}]
    /\ wire \in [Agent -> Seq(Frame)]
    /\ called \in 0..MaxCalls /\ wrong \in BOOLEAN

\* A token is never read as another term than its sender meant, however
\* proposals, acks, drops and messages overtake each other in the two
\* directions: "expansion reverses it and MUST reproduce the original term".
NeverMisread == ~wrong

\* protocol.md: "an entry becomes active only after BOTH sides hold it".  What
\* remains of it, with one side proposing, when frames are lost and drop() does
\* not wait for the peer: a side has an entry active only against a peer that
\* holds the term under the same abbreviation, or has itself dropped the term.
\* So an entry is live on one side alone after a drop the other side has not
\* heard or an ack that did not arrive, and never after a lost proposal.
ActiveIsHeld ==
    \A a \in Agent, t \in Term :
        entry[a][t].state = "active" =>
            \/ entry[Peer(a)][t].abbrev = entry[a][t].abbrev
            \/ t \in dropped[Peer(a)]
=============================================================================
