------------------------ MODULE DocumentSharingProofs ------------------------
(***************************************************************************)
(* Proofs about what leaves a document, for every number of signers, named *)
(* shares, download limits and overlapping requests.                       *)
(***************************************************************************)
EXTENDS DocumentSharing, FiniteSetTheorems, TLAPS

(***************************************************************************)
(* The inductive invariant                                                 *)
(***************************************************************************)

Steps == {"idle", "decide", "counted", "cancel", "disabled", "linking", "consume",
          "sending", "naming", "replacing", "due", "claimed", "mark", "stamp",
          "unmarked", "prepare"}

\* What a slot holds: a status to write, the limit of a link or ids of shares.
Holdable == Statuses \cup Limits \cup Shares

Requests == [step : Steps, signer : Signers \cup {None},
             what : Decisions \cup BOOLEAN \cup {"original", "copy", "none", None},
             seen : Nat, held : SUBSET Holdable, overlap : BOOLEAN]

\* What a request keeps from its first reads to its write.
Prepared(r) ==
  /\ r.step \in {"decide", "counted"} => r.signer \in Signers /\ r.what \in Decisions
  /\ r.step = "counted" => \E x \in {"OPEN", "COMPLETED", "DECLINED"} : r.held = {x}
  /\ r.step = "linking" => \E x \in Limits : r.held = {x}
  /\ r.step \in {"due", "claimed"} => \E x \in Shares : r.held = {x}
  /\ r.step = "replacing" => r.held \subseteq Shares
  /\ r.step = "mark" => r.what \in BOOLEAN

Types ==
  /\ TypeOK
  /\ req \in [Slots -> Requests]
  /\ \A s \in Slots : Prepared(req[s])

\* A transaction of decide is alone on its entry, and the entry is undecided
\* until it commits.
EntryLocked ==
  /\ \A s \in Slots : At(s, "counted") => entries[req[s].signer] = "PENDING"
  /\ \A s, t \in Slots :
       At(s, "counted") /\ At(t, "counted") /\ req[s].signer = req[t].signer => s = t

\* A writer of the status that is under way when the request ends knows it.
WritersKnow ==
  \A s \in Slots : req[s].step \in {"decide", "counted", "cancel"} =>
    request # "none" /\ (request = "OPEN" \/ req[s].overlap)

\* A transaction during which no other one committed still has the right outcome.
CountCurrent ==
  \A s \in Slots : At(s, "counted") =>
    req[s].overlap \/ req[s].held = {Outcome(req[s].signer, req[s].what)}

SignatureInv == EntryLocked /\ WritersKnow /\ CountCurrent /\ SignaturesSound

\* The counter is what was served, and stays within the limit.
CountsServed ==
  /\ served = link.count
  /\ link.max # None => link.count <= link.max
  /\ ~link.there => link = NoLink

\* A creation under way when sharing is disabled knows it.
CreatorsKnow == \A s \in Slots : At(s, "linking") => enabled \/ req[s].overlap

LinkInv == CountsServed /\ CreatorsKnow /\ DisabledClosesLinks

\* The original is opened for a reader only while the document is not sensitive.
OriginalsPlain ==
  \A s \in Slots : req[s].step \in {"consume", "sending"} /\ req[s].what = "original"
                     => ~doc.sensitive \/ req[s].overlap

NoneActive == \A h \in Shares : ~Active(h)
Withdrawing == \E s \in Slots : At(s, "unmarked")

\* A share under way that nothing overlapped is of a sensitive document and
\* replaces every active share.
SharersKnow ==
  \A s \in Slots :
    /\ req[s].step \in {"naming", "replacing"} => doc.sensitive \/ req[s].overlap
    /\ At(s, "replacing") => req[s].overlap \/ \A h \in Shares : Active(h) => h \in req[s].held

\* A marking under way that nothing overlapped found the document plain; before
\* it can be taken back, no share has been given out.
MarkersKnow ==
  \A s \in Slots :
    /\ At(s, "mark") /\ req[s].what = TRUE => ~doc.sensitive \/ req[s].overlap
    /\ At(s, "stamp") => raced \/ req[s].overlap \/ NoneActive \/ Withdrawing

OneActive == raced \/ \A h, k \in Shares : Active(h) /\ Active(k) => h = k

NamedInv == SharersKnow /\ MarkersKnow /\ OneActive /\ NoShareOfPlain

\* A row is reminded of, claimed and mailed only after it was created; one
\* claim holds it and it is mailed after that claim only.
ReminderInv ==
  /\ \A s \in Slots, h \in Shares : req[s].step \in {"due", "claimed"} /\ h \in req[s].held
       => shares[h].state # "none"
  /\ \A s \in Slots, h \in Shares : At(s, "claimed") /\ h \in req[s].held
       => shares[h].reminded /\ mails[h] = 0
  /\ \A s, t \in Slots, h \in Shares :
       At(s, "claimed") /\ At(t, "claimed") /\ h \in req[s].held /\ h \in req[t].held => s = t
  /\ \A h \in Shares : mails[h] = 0 \/ (mails[h] = 1 /\ shares[h].reminded)
  /\ \A h \in Shares : shares[h].reminded => shares[h].state # "none"

(***************************************************************************)
(* The actions by the rows they write                                      *)
(***************************************************************************)

SignatureActions ==
  \/ RequestSignatures
  \/ \E s \in Slots :
       \/ \E g \in Signers, d \in Decisions : ReadEntry(s, g, d)
       \/ CountRemaining(s) \/ CommitDecision(s) \/ ReadCancel(s) \/ WriteCancel(s)

LinkActions ==
  \/ Revoke \/ LinkExpires
  \/ \E s \in Slots :
       \/ \E on \in BOOLEAN : SaveSharing(s, on)
       \/ \E max \in Limits : CheckShare(s, max)
       \/ CloseLinks(s) \/ CreateLink(s) \/ OpenLink(s) \/ Consume(s)

ShareActions ==
  \/ \E h \in Shares : RevokeShare(h) \/ ShareAges(h)
  \/ \E s \in Slots :
       \/ CheckNamedShare(s) \/ ReplacePrevious(s)
       \/ \E h \in Shares, ends \in {"never", "later"} : CommitNamedShare(s, h, ends)

ReminderActions ==
  \E s \in Slots : \/ \E h \in Shares : ReadDue(s, h)
                   \/ Claim(s)
                   \/ \E ok \in BOOLEAN : Remind(s, ok)

MarkActions ==
  \E s \in Slots : \/ \E on \in BOOLEAN : CheckSensitivity(s, on)
                   \/ WriteSensitivity(s) \/ Stamp(s) \/ StampFails(s) \/ Withdraw(s)

ReaderActions ==
  \E s \in Slots : \/ \E ok \in BOOLEAN : OpenDocument(s, ok) \/ PrepareCopy(s, ok)
                   \/ Send(s)

OtherActions ==
  \/ Publish \/ NewVersion \/ VersionLost
  \/ \E s \in Slots : Crash(s)

LEMMA Groups ==
  Next => \/ SignatureActions \/ LinkActions \/ ShareActions \/ ReminderActions
          \/ MarkActions \/ ReaderActions \/ OtherActions
BY DEF Next, SignatureActions, LinkActions, ShareActions, ReminderActions, MarkActions,
   ReaderActions, OtherActions

(***************************************************************************)
(* Types                                                                   *)
(***************************************************************************)

IsRequest(r, step) == r \in Requests /\ Prepared(r) /\ r.step = step

LEMMA IdleType == IsRequest(Idle, "idle")
BY DEF IsRequest, Idle, Requests, Prepared, Steps

\* What a request notes at its first reads.
LEMMA NewRequests ==
  /\ \A g \in Signers, d \in Decisions :
       IsRequest([Idle EXCEPT !.step = "decide", !.signer = g, !.what = d], "decide")
  /\ IsRequest([Idle EXCEPT !.step = "cancel"], "cancel")
  /\ IsRequest([Idle EXCEPT !.step = "disabled"], "disabled")
  /\ \A max \in Limits : IsRequest([Idle EXCEPT !.step = "linking", !.held = {max}], "linking")
  /\ \A n \in Nat :
       IsRequest([Idle EXCEPT !.step = "consume", !.what = "original", !.seen = n], "consume")
  /\ IsRequest([Idle EXCEPT !.step = "naming"], "naming")
  /\ \A h \in Shares : IsRequest([Idle EXCEPT !.step = "due", !.held = {h}], "due")
  /\ \A on \in BOOLEAN, n \in Nat :
       IsRequest([Idle EXCEPT !.step = "mark", !.what = on, !.seen = n], "mark")
  /\ \A step \in {"prepare", "sending"}, file \in {"original", "copy", "none"} :
       IsRequest([Idle EXCEPT !.step = step, !.what = file], step)
<1> USE DEF IsRequest, Idle, Requests, Prepared, Steps, Holdable
<1>1. ASSUME NEW g \in Signers, NEW d \in Decisions
      PROVE  IsRequest([Idle EXCEPT !.step = "decide", !.signer = g, !.what = d], "decide")
  OBVIOUS
<1>2. /\ IsRequest([Idle EXCEPT !.step = "cancel"], "cancel")
      /\ IsRequest([Idle EXCEPT !.step = "disabled"], "disabled")
      /\ IsRequest([Idle EXCEPT !.step = "naming"], "naming")
  OBVIOUS
<1>3. ASSUME NEW max \in Limits
      PROVE  IsRequest([Idle EXCEPT !.step = "linking", !.held = {max}], "linking")
  OBVIOUS
<1>4. ASSUME NEW n \in Nat
      PROVE  IsRequest([Idle EXCEPT !.step = "consume", !.what = "original", !.seen = n],
                       "consume")
  OBVIOUS
<1>5. ASSUME NEW h \in Shares
      PROVE  IsRequest([Idle EXCEPT !.step = "due", !.held = {h}], "due")
  OBVIOUS
<1>6. ASSUME NEW on \in BOOLEAN, NEW n \in Nat
      PROVE  IsRequest([Idle EXCEPT !.step = "mark", !.what = on, !.seen = n], "mark")
  OBVIOUS
<1>7. ASSUME NEW step \in {"prepare", "sending"}, NEW file \in {"original", "copy", "none"}
      PROVE  IsRequest([Idle EXCEPT !.step = step, !.what = file], step)
  OBVIOUS
<1> HIDE DEF IsRequest, Idle, Requests, Prepared, Steps, Holdable
<1> QED BY <1>1, <1>2, <1>3, <1>4, <1>5, <1>6, <1>7

\* What it keeps of it from one step to the next.
LEMMA NextRequests ==
  ASSUME Types, NEW s \in Slots
  PROVE  /\ At(s, "decide") => IsRequest([req[s] EXCEPT !.step = "counted",
                                 !.held = {Outcome(req[s].signer, req[s].what)}], "counted")
         /\ IsRequest([req[s] EXCEPT !.step = "sending"], "sending")
         /\ IsRequest([req[s] EXCEPT !.step = "replacing", !.held = Previous], "replacing")
         /\ At(s, "due") => IsRequest([req[s] EXCEPT !.step = "claimed"], "claimed")
         /\ IsRequest([req[s] EXCEPT !.step = "unmarked"], "unmarked")
         /\ IsRequest([req[s] EXCEPT !.step = "stamp"], "stamp")
         /\ IsRequest([req[s] EXCEPT !.step = "sending", !.what = "copy"], "sending")
<1>0. req[s] \in Requests /\ Prepared(req[s])
  BY DEF Types
<1> USE <1>0 DEF IsRequest, Requests, Prepared, Steps, At, Holdable
<1>1. At(s, "decide") => IsRequest([req[s] EXCEPT !.step = "counted",
                            !.held = {Outcome(req[s].signer, req[s].what)}], "counted")
  BY DEF Outcome, Statuses
<1>2. IsRequest([req[s] EXCEPT !.step = "sending"], "sending")
  OBVIOUS
<1>3. IsRequest([req[s] EXCEPT !.step = "replacing", !.held = Previous], "replacing")
  BY DEF Previous
<1>4. At(s, "due") => IsRequest([req[s] EXCEPT !.step = "claimed"], "claimed")
  OBVIOUS
<1>5. IsRequest([req[s] EXCEPT !.step = "unmarked"], "unmarked")
  OBVIOUS
<1>7. IsRequest([req[s] EXCEPT !.step = "stamp"], "stamp")
  OBVIOUS
<1>6. IsRequest([req[s] EXCEPT !.step = "sending", !.what = "copy"], "sending")
  OBVIOUS
<1> HIDE <1>0 DEF IsRequest, Requests, Prepared, Steps, At, Holdable
<1> QED BY <1>1, <1>2, <1>3, <1>4, <1>5, <1>6, <1>7

\* What a slot keeps when another request writes under it: all but the mark
\* that it was overlapped.
Same(t) ==
  /\ req'[t].step = req[t].step /\ req'[t].signer = req[t].signer
  /\ req'[t].what = req[t].what /\ req'[t].held = req[t].held
  /\ req[t].overlap => req'[t].overlap

ReqTypes == req \in [Slots -> Requests] /\ \A s \in Slots : Prepared(req[s])

\* One slot moves and the others stay.
LEMMA GotoReq ==
  ASSUME Types, NEW s \in Slots, NEW r, NEW step, IsRequest(r, step), Goto(s, r)
  PROVE  /\ ReqTypes'
         /\ req'[s] = r /\ req'[s].step = step
         /\ \A t \in Slots \ {s} : req'[t] = req[t]
BY DEF Types, ReqTypes, Goto, IsRequest

\* One slot moves and those at some of the steps are marked.
LEMMA TouchReq ==
  ASSUME Types, NEW s \in Slots, NEW r, NEW step, IsRequest(r, step), NEW steps,
         Touch(s, r, steps)
  PROVE  /\ ReqTypes'
         /\ req'[s] = r /\ req'[s].step = step
         /\ \A t \in Slots \ {s} : Same(t)
         /\ \A t \in Slots \ {s} : req[t].step \in steps => req'[t].overlap
<1>1. ASSUME NEW t \in Slots
      PROVE  /\ [req[t] EXCEPT !.overlap = TRUE] \in Requests
             /\ Prepared([req[t] EXCEPT !.overlap = TRUE])
  <2>1. req[t] \in Requests /\ Prepared(req[t])
    BY DEF Types
  <2>2. [req[t] EXCEPT !.overlap = TRUE] \in Requests
    BY <2>1 DEF Requests
  <2> QED BY <2>1, <2>2 DEF Requests, Prepared
<1>2. ReqTypes'
  BY <1>1 DEF Types, Touch, ReqTypes, IsRequest
<1>3. ASSUME NEW t \in Slots \ {s} PROVE Same(t) /\ (req[t].step \in steps => req'[t].overlap)
  BY DEF Types, Touch, Same, Requests
<1> QED BY <1>2, <1>3 DEF Touch, IsRequest

\* A slot keeps what it holds, ends, or is at one of the steps; a second
\* statement that is not made leaves its trace; a race is not forgotten.
Within(steps) ==
  /\ \A t \in Slots : Same(t) \/ req'[t].step \in {"idle"} \cup steps
  /\ \A t \in Slots : req[t].step \in {"disabled", "unmarked"} \ steps => Same(t) \/ raced'
  /\ raced => raced'

LEMMA GotoWithin ==
  ASSUME Types, NEW s \in Slots, NEW r, NEW step, IsRequest(r, step), Goto(s, r), NEW steps,
         step \in {"idle"} \cup steps, raced => raced',
         req[s].step \in {"disabled", "unmarked"} \ steps => raced'
  PROVE  ReqTypes' /\ Within(steps)
BY GotoReq DEF Within, Same, IsRequest

LEMMA TouchWithin ==
  ASSUME Types, NEW s \in Slots, NEW r, NEW step, IsRequest(r, step), NEW T, Touch(s, r, T),
         NEW steps, step \in {"idle"} \cup steps, raced => raced',
         req[s].step \in {"disabled", "unmarked"} \ steps => raced'
  PROVE  ReqTypes' /\ Within(steps)
BY TouchReq DEF Within, IsRequest

LEMMA StayWithin ==
  ASSUME Types, UNCHANGED <<req, raced>>, NEW steps PROVE ReqTypes' /\ Within(steps)
BY DEF Within, Same, Types, ReqTypes

LEMMA InitTypes == Init => Types
<1> SUFFICES ASSUME Init PROVE Types
  OBVIOUS
<1>1. req \in [Slots -> Requests] /\ \A s \in Slots : Prepared(req[s])
  BY IdleType DEF Init, IsRequest
<1>2. doc \in [published : BOOLEAN, sensitive : BOOLEAN, clean : BOOLEAN, marked : BOOLEAN]
  BY DEF Init
<1>3. link \in [there : BOOLEAN, revoked : BOOLEAN, expired : BOOLEAN,
                max : Limits \cup {None}, count : Nat]
  BY DEF Init, NoLink
<1>4. shares \in [Shares -> [state : {"none", "active", "revoked"},
                             ends : {"never", "later", "soon", "past"}, reminded : BOOLEAN]]
  BY DEF Init, NoShare
<1> QED BY <1>1, <1>2, <1>3, <1>4 DEF Init, Types, TypeOK, Statuses

\* The rows without the requests.
RowTypes ==
  /\ doc \in [published : BOOLEAN, sensitive : BOOLEAN, clean : BOOLEAN, marked : BOOLEAN]
  /\ enabled \in BOOLEAN /\ raced \in BOOLEAN
  /\ request \in Statuses
  /\ entries \in [Signers -> {"PENDING"} \cup Decisions]
  /\ link \in [there : BOOLEAN, revoked : BOOLEAN, expired : BOOLEAN,
               max : Limits \cup {None}, count : Nat]
  /\ shares \in [Shares -> [state : {"none", "active", "revoked"},
                            ends : {"never", "later", "soon", "past"}, reminded : BOOLEAN]]
  /\ served \in Nat /\ mails \in [Shares -> Nat]

LEMMA TypesSplit ==
  /\ Types <=> part \in {"signatures", "links", "shares"} /\ RowTypes /\ ReqTypes
  /\ Types' <=> part' \in {"signatures", "links", "shares"} /\ RowTypes' /\ ReqTypes'
BY DEF Types, TypeOK, RowTypes, ReqTypes

LEMMA SignatureFrame ==
  ASSUME Types, SignatureActions
  PROVE  /\ Types' /\ Within({"decide", "counted", "cancel"})
         /\ UNCHANGED <<doc, enabled, link, served, shares, mails>>
<1> DEFINE W == ReqTypes' /\ Within({"decide", "counted", "cancel"})
<1> USE DEF signing, linking, naming
<1>0. UNCHANGED <<part, doc, enabled, link, served, shares, mails>>
  BY DEF SignatureActions, RequestSignatures, ReadEntry, CountRemaining, CommitDecision,
     ReadCancel, WriteCancel
<1>1. ASSUME RequestSignatures PROVE W /\ RowTypes'
  BY <1>1, StayWithin, TypesSplit DEF RequestSignatures, RowTypes, Statuses
<1>2. ASSUME NEW s \in Slots, NEW g \in Signers, NEW d \in Decisions, ReadEntry(s, g, d)
      PROVE  W /\ RowTypes'
  <2>1. W
    BY <1>2, NewRequests, GotoWithin DEF ReadEntry, At
  <2> QED BY <1>2, <2>1, TypesSplit DEF ReadEntry, RowTypes
<1>3. ASSUME NEW s \in Slots, CountRemaining(s) PROVE W /\ RowTypes'
  <2>1. W
    BY <1>3, NextRequests, IdleType, GotoWithin DEF CountRemaining, At
  <2> QED BY <1>3, <2>1, TypesSplit DEF CountRemaining, RowTypes
<1>4. ASSUME NEW s \in Slots, CommitDecision(s) PROVE W /\ RowTypes'
  <2>1. W
    BY <1>4, TouchWithin, IdleType DEF CommitDecision, At
  <2>2. req[s].signer \in Signers /\ req[s].what \in Decisions /\ req[s].overlap \in BOOLEAN
    BY <1>4 DEF CommitDecision, At, Types, Prepared, Requests
  <2>3. (CHOOSE x \in req[s].held : TRUE) \in Statuses
    BY <1>4 DEF CommitDecision, At, Types, Prepared, Statuses
  <2> QED BY <1>4, <2>1, <2>2, <2>3, TypesSplit DEF CommitDecision, RowTypes
<1>5. ASSUME NEW s \in Slots, ReadCancel(s) PROVE W /\ RowTypes'
  <2>1. W
    BY <1>5, NewRequests, GotoWithin DEF ReadCancel, At
  <2> QED BY <1>5, <2>1, TypesSplit DEF ReadCancel, RowTypes
<1>6. ASSUME NEW s \in Slots, WriteCancel(s) PROVE W /\ RowTypes'
  <2>1. W
    BY <1>6, TouchWithin, IdleType DEF WriteCancel, At
  <2>2. raced' \in BOOLEAN
    BY <1>6 DEF WriteCancel, Types, TypeOK, Requests
  <2> QED BY <1>6, <2>1, <2>2, TypesSplit DEF WriteCancel, RowTypes, Statuses
<1>7. W /\ RowTypes'
  BY <1>1, <1>2, <1>3, <1>4, <1>5, <1>6 DEF SignatureActions
<1> QED BY <1>0, <1>7, TypesSplit

LEMMA LinkFrame ==
  ASSUME Types, LinkActions
  PROVE  /\ Types' /\ Within({"disabled", "linking", "consume", "sending"})
         /\ UNCHANGED <<doc, request, entries, shares, mails>>
<1> DEFINE W == ReqTypes' /\ Within({"disabled", "linking", "consume", "sending"})
<1> USE DEF signing, linking, naming
<1>0. UNCHANGED <<part, doc, request, entries, shares, mails>>
  BY DEF LinkActions, Revoke, LinkExpires, SaveSharing, CheckShare, CloseLinks, CreateLink,
     OpenLink, Consume
<1>1. ASSUME Revoke \/ LinkExpires PROVE W /\ RowTypes'
  BY <1>1, StayWithin, TypesSplit DEF Revoke, LinkExpires, RowTypes
<1>2. ASSUME NEW s \in Slots, NEW on \in BOOLEAN, SaveSharing(s, on) PROVE W /\ RowTypes'
  <2>1. W
    BY <1>2, NewRequests, IdleType, TouchWithin DEF SaveSharing, At
  <2> QED BY <1>2, <2>1, TypesSplit DEF SaveSharing, RowTypes
<1>3. ASSUME NEW s \in Slots, NEW max \in Limits, CheckShare(s, max) PROVE W /\ RowTypes'
  <2>1. W
    BY <1>3, NewRequests, GotoWithin DEF CheckShare, At
  <2> QED BY <1>3, <2>1, TypesSplit DEF CheckShare, RowTypes
<1>4. ASSUME NEW s \in Slots, CloseLinks(s) PROVE W /\ RowTypes'
  <2>1. W
    BY <1>4, IdleType, GotoWithin DEF CloseLinks, At
  <2> QED BY <1>4, <2>1, TypesSplit DEF CloseLinks, Closed, RowTypes
<1>5. ASSUME NEW s \in Slots, CreateLink(s) PROVE W /\ RowTypes'
  <2>1. req[s].held \subseteq Limits /\ req[s].overlap \in BOOLEAN
    BY <1>5 DEF CreateLink, At, Types, Prepared, Requests
  <2>2. link' = link \/ \E max \in Limits : link' = [NoLink EXCEPT !.there = TRUE, !.max = max]
    BY <1>5, <2>1 DEF CreateLink
  <2>3. \A max \in Limits : [NoLink EXCEPT !.there = TRUE, !.max = max]
           \in [there : BOOLEAN, revoked : BOOLEAN, expired : BOOLEAN,
                max : Limits \cup {None}, count : Nat]
    BY DEF NoLink
  <2>4. raced' \in BOOLEAN /\ (raced => raced')
    BY <1>5, <2>1 DEF CreateLink, Types, TypeOK
  <2>5. W
    BY <1>5, <2>4, IdleType, GotoWithin DEF CreateLink, At
  <2> QED BY <1>5, <2>2, <2>3, <2>4, <2>5, TypesSplit DEF CreateLink, RowTypes
<1>6. ASSUME NEW s \in Slots, OpenLink(s) PROVE W /\ RowTypes'
  <2>1. link.count \in Nat
    BY DEF Types, TypeOK
  <2>2. W
    BY <1>6, <2>1, NewRequests, GotoWithin DEF OpenLink, At
  <2> QED BY <1>6, <2>2, TypesSplit DEF OpenLink, RowTypes
<1>7. ASSUME NEW s \in Slots, Consume(s) PROVE W /\ RowTypes'
  <2>1. W
    BY <1>7, NextRequests, IdleType, GotoWithin DEF Consume, At
  <2> QED BY <1>7, <2>1, TypesSplit DEF Consume, RowTypes
<1>8. W /\ RowTypes'
  BY <1>1, <1>2, <1>3, <1>4, <1>5, <1>6, <1>7 DEF LinkActions
<1> QED BY <1>0, <1>8, TypesSplit

\* The rows some shares of which are revoked are rows.
LEMMA RevokedType ==
  ASSUME Types, NEW held
  PROVE  Revoked(held) \in [Shares -> [state : {"none", "active", "revoked"},
                              ends : {"never", "later", "soon", "past"}, reminded : BOOLEAN]]
BY DEF Revoked, Types, TypeOK

LEMMA ShareFrame ==
  ASSUME Types, ShareActions
  PROVE  /\ Types' /\ Within({"naming", "replacing"})
         /\ UNCHANGED <<doc, enabled, request, entries, link, served, mails>>
<1> DEFINE W == ReqTypes' /\ Within({"naming", "replacing"})
<1> USE DEF signing, linking, naming
<1>0. UNCHANGED <<part, doc, enabled, request, entries, link, served, mails>>
  BY DEF ShareActions, RevokeShare, ShareAges, CheckNamedShare, ReplacePrevious,
     CommitNamedShare
<1>1. ASSUME NEW h \in Shares, RevokeShare(h) PROVE W /\ RowTypes'
  BY <1>1, StayWithin, TypesSplit, RevokedType DEF RevokeShare, RowTypes
<1>2. ASSUME NEW h \in Shares, ShareAges(h) PROVE W /\ RowTypes'
  <2>1. W
    BY <1>2, StayWithin DEF ShareAges
  <2>2. shares' \in [Shares -> [state : {"none", "active", "revoked"},
                        ends : {"never", "later", "soon", "past"}, reminded : BOOLEAN]]
    BY <1>2 DEF ShareAges, Types, TypeOK
  <2>3. UNCHANGED <<doc, enabled, request, entries, link, served, mails, raced>>
    BY <1>2 DEF ShareAges
  <2> QED BY <2>1, <2>2, <2>3, TypesSplit DEF RowTypes
<1>3. ASSUME NEW s \in Slots, CheckNamedShare(s) PROVE W /\ RowTypes'
  <2>1. W
    BY <1>3, NewRequests, GotoWithin DEF CheckNamedShare, At
  <2> QED BY <1>3, <2>1, TypesSplit DEF CheckNamedShare, RowTypes
<1>4. ASSUME NEW s \in Slots, ReplacePrevious(s) PROVE W /\ RowTypes'
  <2>1. W
    BY <1>4, NextRequests, GotoWithin DEF ReplacePrevious, At
  <2> QED BY <1>4, <2>1, TypesSplit DEF ReplacePrevious, RowTypes
<1>5. ASSUME NEW s \in Slots, NEW h \in Shares, NEW ends \in {"never", "later"},
             CommitNamedShare(s, h, ends)
      PROVE  W /\ RowTypes'
  <2>1. shares' \in [Shares -> [state : {"none", "active", "revoked"},
                        ends : {"never", "later", "soon", "past"}, reminded : BOOLEAN]]
    BY <1>5, RevokedType DEF CommitNamedShare, NoShare
  <2>2. raced' \in BOOLEAN
    BY <1>5 DEF CommitNamedShare, Types, TypeOK, Requests
  <2>3. W
    BY <1>5, IdleType, TouchWithin DEF CommitNamedShare, At
  <2> QED BY <1>5, <2>1, <2>2, <2>3, TypesSplit DEF CommitNamedShare, RowTypes
<1>6. W /\ RowTypes'
  BY <1>1, <1>2, <1>3, <1>4, <1>5 DEF ShareActions
<1> QED BY <1>0, <1>6, TypesSplit

LEMMA ReminderFrame ==
  ASSUME Types, ReminderActions
  PROVE  /\ Types' /\ Within({"due", "claimed"})
         /\ UNCHANGED <<doc, enabled, request, entries, link, served>>
         /\ \A h \in Shares : shares'[h].state = shares[h].state
<1> DEFINE W == ReqTypes' /\ Within({"due", "claimed"})
<1> DEFINE S == \A h \in Shares : shares'[h].state = shares[h].state
<1> USE DEF signing, linking, naming
<1>0. UNCHANGED <<part, doc, enabled, request, entries, link, served>>
  BY DEF ReminderActions, ReadDue, Claim, Remind
<1>1. ASSUME NEW s \in Slots, NEW h \in Shares, ReadDue(s, h) PROVE W /\ RowTypes' /\ S
  <2>1. W
    BY <1>1, NewRequests, GotoWithin DEF ReadDue, At
  <2> QED BY <1>1, <2>1, TypesSplit DEF ReadDue, RowTypes
<1>2. ASSUME NEW s \in Slots, Claim(s) PROVE W /\ RowTypes' /\ S
  <2>1. req[s].held \subseteq Shares
    BY <1>2 DEF Claim, At, Types, Prepared
  <2>2. PICK h \in Shares : shares' = shares \/ shares' = [shares EXCEPT ![h].reminded = TRUE]
    BY <1>2, <2>1 DEF Claim
  <2>3. [shares EXCEPT ![h].reminded = TRUE]
           \in [Shares -> [state : {"none", "active", "revoked"},
                      ends : {"never", "later", "soon", "past"}, reminded : BOOLEAN]]
    BY DEF Types, TypeOK
  <2>4. S
    BY <2>2 DEF Types, TypeOK
  <2>5. W
    BY <1>2, NextRequests, IdleType, GotoWithin DEF Claim, At
  <2>6. UNCHANGED <<doc, enabled, request, entries, link, served, mails, raced>>
    BY <1>2 DEF Claim
  <2>7. shares' \in [Shares -> [state : {"none", "active", "revoked"},
                        ends : {"never", "later", "soon", "past"}, reminded : BOOLEAN]]
    BY <2>2, <2>3 DEF Types, TypeOK
  <2>8. RowTypes'
    BY <2>6, <2>7, TypesSplit DEF RowTypes
  <2> QED BY <2>4, <2>5, <2>8
<1>3. ASSUME NEW s \in Slots, NEW ok \in BOOLEAN, Remind(s, ok) PROVE W /\ RowTypes' /\ S
  <2>1. mails' \in [Shares -> Nat]
    BY <1>3 DEF Remind, At, Types, TypeOK, Prepared
  <2>2. W
    BY <1>3, IdleType, GotoWithin DEF Remind, At
  <2> QED BY <1>3, <2>1, <2>2, TypesSplit DEF Remind, RowTypes
<1>4. W /\ RowTypes' /\ S
  BY <1>1, <1>2, <1>3 DEF ReminderActions
<1> QED BY <1>0, <1>4, TypesSplit

LEMMA MarkFrame ==
  ASSUME Types, MarkActions
  PROVE  /\ Types' /\ Within({"mark", "stamp", "unmarked"})
         /\ UNCHANGED <<enabled, request, entries, link, served, mails>>
<1> DEFINE W == ReqTypes' /\ Within({"mark", "stamp", "unmarked"})
<1> USE DEF signing, linking, naming
<1>0. UNCHANGED <<part, enabled, request, entries, link, served, mails>>
  BY DEF MarkActions, CheckSensitivity, WriteSensitivity, Stamp, StampFails, Withdraw
<1>1. ASSUME NEW s \in Slots, NEW on \in BOOLEAN, CheckSensitivity(s, on)
      PROVE  W /\ RowTypes'
  <2>1. PICK n \in Nat : Goto(s, [Idle EXCEPT !.step = "mark", !.what = on, !.seen = n])
    BY <1>1 DEF CheckSensitivity
  <2>2. W
    BY <1>1, <2>1, NewRequests, GotoWithin DEF CheckSensitivity, At
  <2> QED BY <1>1, <2>2, TypesSplit DEF CheckSensitivity, RowTypes
<1>2. ASSUME NEW s \in Slots, WriteSensitivity(s) PROVE W /\ RowTypes'
  <2>1. req[s].what \in BOOLEAN
    BY <1>2 DEF WriteSensitivity, At, Types, Prepared
  <2>2. W
    BY <1>2, NextRequests, IdleType, TouchWithin DEF WriteSensitivity, At
  <2>3. doc' \in [published : BOOLEAN, sensitive : BOOLEAN, clean : BOOLEAN, marked : BOOLEAN]
    BY <1>2, <2>1 DEF WriteSensitivity, Types, TypeOK
  <2>4. UNCHANGED <<enabled, request, entries, link, served, shares, mails, raced>>
    BY <1>2 DEF WriteSensitivity
  <2> QED BY <2>2, <2>3, <2>4, TypesSplit DEF RowTypes
<1>3. ASSUME NEW s \in Slots, Stamp(s) PROVE W /\ RowTypes'
  <2>1. W
    BY <1>3, IdleType, GotoWithin DEF Stamp, At
  <2> QED BY <1>3, <2>1, TypesSplit DEF Stamp, Stamped, RowTypes
<1>4. ASSUME NEW s \in Slots, StampFails(s) PROVE W /\ RowTypes'
  <2>1. raced' \in BOOLEAN
    BY <1>4 DEF StampFails, Types, TypeOK, Requests
  <2>2. W
    BY <1>4, IdleType, TouchWithin DEF StampFails, At
  <2> QED BY <1>4, <2>1, <2>2, TypesSplit DEF StampFails, RowTypes
<1>5. ASSUME NEW s \in Slots, Withdraw(s) PROVE W /\ RowTypes'
  <2>1. W
    BY <1>5, IdleType, TouchWithin DEF Withdraw, At
  <2> QED BY <1>5, <2>1, TypesSplit, RevokedType DEF Withdraw, Withdrawn, RowTypes
<1>6. W /\ RowTypes'
  BY <1>1, <1>2, <1>3, <1>4, <1>5 DEF MarkActions
<1> QED BY <1>0, <1>6, TypesSplit

LEMMA ReaderFrame ==
  ASSUME Types, ReaderActions
  PROVE  /\ Types' /\ Within({"prepare", "sending"})
         /\ UNCHANGED <<enabled, request, entries, link, served, shares, mails>>
         /\ doc'.sensitive = doc.sensitive
<1> DEFINE W == ReqTypes' /\ Within({"prepare", "sending"})
<1> DEFINE D == doc'.sensitive = doc.sensitive
<1> USE DEF signing, linking, naming
<1>0. UNCHANGED <<part, enabled, request, entries, link, served, shares, mails>>
  BY DEF ReaderActions, OpenDocument, PrepareCopy, Send
<1>1. ASSUME NEW s \in Slots, NEW ok \in BOOLEAN, OpenDocument(s, ok) PROVE W /\ RowTypes' /\ D
  <2>1. PICK step \in {"prepare", "sending"}, file \in {"original", "copy", "none"} :
          Goto(s, [Idle EXCEPT !.step = step, !.what = file])
    BY <1>1 DEF OpenDocument, FileOf
  <2>2. W
    BY <1>1, <2>1, NewRequests, GotoWithin DEF OpenDocument, At
  <2> QED BY <1>1, <2>2, TypesSplit DEF OpenDocument, RowTypes
<1>2. ASSUME NEW s \in Slots, NEW ok \in BOOLEAN, PrepareCopy(s, ok) PROVE W /\ RowTypes' /\ D
  <2>1. W
    BY <1>2, NextRequests, IdleType, GotoWithin DEF PrepareCopy, At
  <2> QED BY <1>2, <2>1, TypesSplit DEF PrepareCopy, Stamped, RowTypes
<1>3. ASSUME NEW s \in Slots, Send(s) PROVE W /\ RowTypes' /\ D
  <2>1. W
    BY <1>3, IdleType, GotoWithin DEF Send, At
  <2> QED BY <1>3, <2>1, TypesSplit DEF Send, RowTypes
<1>4. W /\ RowTypes' /\ D
  BY <1>1, <1>2, <1>3 DEF ReaderActions
<1> QED BY <1>0, <1>4, TypesSplit

LEMMA OtherFrame ==
  ASSUME Types, OtherActions
  PROVE  /\ Types' /\ Within({})
         /\ UNCHANGED <<enabled, request, entries, link, served, shares, mails>>
         /\ doc'.sensitive = doc.sensitive
<1> DEFINE W == ReqTypes' /\ Within({})
<1> DEFINE D == doc'.sensitive = doc.sensitive
<1> USE DEF signing, linking, naming
<1>0. UNCHANGED <<part, enabled, request, entries, link, served, shares, mails>>
  BY DEF OtherActions, Publish, NewVersion, VersionLost, Crash
<1>1. ASSUME Publish \/ NewVersion \/ VersionLost PROVE W /\ RowTypes' /\ D
  BY <1>1, StayWithin, TypesSplit DEF Publish, NewVersion, VersionLost, RowTypes
<1>2. ASSUME NEW s \in Slots, Crash(s) PROVE W /\ RowTypes' /\ D
  <2>1. W
    BY <1>2, IdleType, GotoWithin DEF Crash
  <2> QED BY <1>2, <2>1, TypesSplit DEF Crash, RowTypes
<1>3. W /\ RowTypes' /\ D
  BY <1>1, <1>2 DEF OtherActions
<1> QED BY <1>0, <1>3, TypesSplit

LEMMA NextTypes == ASSUME Types, [Next]_vars PROVE Types'
<1>1. ASSUME UNCHANGED vars PROVE Types'
  BY <1>1 DEF vars, Types, TypeOK
<1> QED BY <1>1, Groups, SignatureFrame, LinkFrame, ShareFrame, ReminderFrame, MarkFrame,
      ReaderFrame, OtherFrame

LEMMA Typed == Spec => []Types
BY InitTypes, NextTypes, PTL DEF Spec

(***************************************************************************)
(* Signatures                                                              *)
(***************************************************************************)

LEMMA SignatureKept ==
  ASSUME Types, SignatureInv, NEW steps, Within(steps),
         steps \cap {"decide", "counted", "cancel"} = {}, UNCHANGED <<request, entries>>
  PROVE  SignatureInv'
<1>1. ASSUME NEW t \in Slots, req'[t].step \in {"decide", "counted", "cancel"} PROVE Same(t)
  BY <1>1 DEF Within
<1>2. EntryLocked'
  BY <1>1 DEF SignatureInv, EntryLocked, Same, At
<1>3. WritersKnow'
  BY <1>1 DEF SignatureInv, WritersKnow, Same, At
<1>4. CountCurrent'
  BY <1>1 DEF SignatureInv, CountCurrent, Same, At, Outcome, Remaining
<1>5. SignaturesSound'
  BY DEF Within, SignatureInv, SignaturesSound, CompletedIffSigned, RefusalEnds
<1> QED BY <1>2, <1>3, <1>4, <1>5 DEF SignatureInv

\* A decision that commits while nothing else did: the request is open, no one
\* declined, and the status written is the one its entries have then.
LEMMA CommitSound ==
  ASSUME Types, SignatureInv, NEW s \in Slots, CommitDecision(s) PROVE SignaturesSound'
<1>1. CASE raced \/ req[s].overlap
  BY <1>1 DEF CommitDecision, SignaturesSound, CompletedIffSigned, RefusalEnds
<1>2. CASE ~raced /\ ~req[s].overlap
  <2> DEFINE g == req[s].signer
  <2> DEFINE d == req[s].what
  <2>1. g \in Signers /\ d \in Decisions /\ At(s, "counted")
    BY DEF CommitDecision, At, Types, Prepared
  <2>2. request = "OPEN"
    BY <1>2, <2>1 DEF SignatureInv, WritersKnow, At
  <2>3. \A h \in Signers : entries[h] # "DECLINED"
    BY <1>2, <2>2 DEF SignatureInv, SignaturesSound, RefusalEnds
  <2>4. (CHOOSE x \in req[s].held : TRUE) = Outcome(g, d)
    BY <1>2, <2>1 DEF SignatureInv, CountCurrent
  <2>5. request' = Outcome(g, d)
    BY <2>2, <2>4 DEF CommitDecision
  <2>6. /\ entries'[g] = d
        /\ \A h \in Signers \ {g} : entries'[h] = entries[h]
        /\ \A h \in Signers : entries[h] \in {"PENDING", "SIGNED", "DECLINED"}
    BY <2>1 DEF CommitDecision, Types, TypeOK, Decisions
  <2> HIDE DEF g, d
  <2>7. CASE d = "DECLINED"
    <3>1. request' = "DECLINED"
      BY <2>5, <2>7 DEF Outcome
    <3> QED BY <2>1, <2>6, <2>7, <3>1 DEF SignaturesSound, CompletedIffSigned, RefusalEnds
  <2>8. CASE d = "SIGNED" /\ Remaining(g) = {}
    <3>1. request' = "COMPLETED"
      BY <2>5, <2>8 DEF Outcome
    <3>2. \A h \in Signers : entries'[h] = "SIGNED"
      BY <2>1, <2>3, <2>6, <2>8 DEF Remaining
    <3> QED BY <3>1, <3>2 DEF SignaturesSound, CompletedIffSigned, RefusalEnds
  <2>9. CASE d = "SIGNED" /\ Remaining(g) # {}
    <3>1. request' = "OPEN"
      BY <2>5, <2>9 DEF Outcome
    <3>2. PICK h \in Signers : entries'[h] = "PENDING"
      BY <2>6, <2>9 DEF Remaining
    <3>3. \A k \in Signers : entries'[k] # "DECLINED"
      BY <2>3, <2>6, <2>9
    <3> QED BY <3>1, <3>2, <3>3 DEF SignaturesSound, CompletedIffSigned, RefusalEnds
  <2> QED BY <2>1, <2>7, <2>8, <2>9 DEF Decisions
<1> QED BY <1>1, <1>2 DEF Types, TypeOK, Requests

LEMMA SignatureSteps == ASSUME Types, SignatureInv, SignatureActions PROVE SignatureInv'
<1> USE DEF signing, linking, naming
<1>1. ASSUME RequestSignatures PROVE SignatureInv'
  <2>1. UNCHANGED <<entries, req, raced>> /\ request = "none" /\ request' = "OPEN"
    BY <1>1 DEF RequestSignatures
  <2>2. EntryLocked' /\ WritersKnow'
    BY <2>1 DEF SignatureInv, EntryLocked, WritersKnow, At
  <2>3. CountCurrent'
    BY <2>1 DEF SignatureInv, CountCurrent, At, Outcome, Remaining
  <2>4. SignaturesSound'
    BY <2>1 DEF SignatureInv, SignaturesSound, CompletedIffSigned, RefusalEnds
  <2> QED BY <2>2, <2>3, <2>4 DEF SignatureInv
<1>2. ASSUME NEW s \in Slots, NEW g \in Signers, NEW d \in Decisions, ReadEntry(s, g, d)
      PROVE  SignatureInv'
  <2>1. /\ req'[s].step = "decide" /\ request = "OPEN"
        /\ \A t \in Slots \ {s} : req'[t] = req[t]
    <3>1. IsRequest([Idle EXCEPT !.step = "decide", !.signer = g, !.what = d], "decide")
      BY NewRequests
    <3> QED BY <1>2, <3>1, GotoReq DEF ReadEntry, Decidable
  <2>2. UNCHANGED <<request, entries, raced>>
    BY <1>2 DEF ReadEntry
  <2>3. EntryLocked'
    BY <2>1, <2>2 DEF SignatureInv, EntryLocked, At
  <2>4. WritersKnow'
    BY <2>1, <2>2 DEF SignatureInv, WritersKnow, At
  <2>5. CountCurrent'
    BY <2>1, <2>2 DEF SignatureInv, CountCurrent, At, Outcome, Remaining
  <2>6. SignaturesSound'
    BY <2>2 DEF SignatureInv, SignaturesSound, CompletedIffSigned, RefusalEnds
  <2> QED BY <2>3, <2>4, <2>5, <2>6 DEF SignatureInv
<1>3. ASSUME NEW s \in Slots, CountRemaining(s) PROVE SignatureInv'
  <2> DEFINE r == [req[s] EXCEPT !.step = "counted",
                                 !.held = {Outcome(req[s].signer, req[s].what)}]
  <2>1. UNCHANGED <<request, entries, raced>> /\ req[s].step = "decide"
    BY <1>3 DEF CountRemaining, At
  <2>2. \A t \in Slots \ {s} : req'[t] = req[t]
    BY <1>3, GotoReq, NextRequests, IdleType DEF CountRemaining
  <2>3. \/ req'[s].step = "idle"
        \/ /\ req'[s].step = "counted" /\ req'[s].signer = req[s].signer
           /\ req'[s].overlap = req[s].overlap /\ entries[req[s].signer] = "PENDING"
           /\ req'[s].held = {Outcome(req'[s].signer, req'[s].what)}
    <3>1. /\ r.step = "counted" /\ r.signer = req[s].signer /\ r.overlap = req[s].overlap
          /\ r.held = {Outcome(r.signer, r.what)}
      BY DEF Types, Requests
    <3>2. req'[s] = Idle \/ (req'[s] = r /\ Undecided(req[s].signer))
      BY <1>3, <2>1, GotoReq, NextRequests, IdleType DEF CountRemaining
    <3> QED BY <3>1, <3>2, IdleType DEF Undecided, IsRequest
  <2>4. EntryLocked'
    <3>1. \A t \in Slots \ {s} : ~(At(t, "counted") /\ req[t].signer = req[s].signer)
      BY <1>3 DEF CountRemaining
    <3> QED BY <2>1, <2>2, <2>3, <3>1 DEF SignatureInv, EntryLocked, At
  <2>5. WritersKnow'
    BY <2>1, <2>2, <2>3 DEF SignatureInv, WritersKnow, At
  <2>6. CountCurrent'
    BY <2>1, <2>2, <2>3 DEF SignatureInv, CountCurrent, At, Outcome, Remaining
  <2>7. SignaturesSound'
    BY <2>1 DEF SignatureInv, SignaturesSound, CompletedIffSigned, RefusalEnds
  <2> QED BY <2>4, <2>5, <2>6, <2>7 DEF SignatureInv
<1>4. ASSUME NEW s \in Slots, CommitDecision(s) PROVE SignatureInv'
  <2> DEFINE T == {"counted"} \cup (IF request' = request THEN {} ELSE {"decide", "cancel"})
  <2>1. /\ req'[s].step = "idle"
        /\ \A t \in Slots \ {s} : Same(t)
        /\ \A t \in Slots \ {s} : req[t].step \in T => req'[t].overlap
    BY <1>4, TouchReq, IdleType DEF CommitDecision
  <2>2. At(s, "counted") /\ req[s].signer \in Signers
    BY <1>4 DEF CommitDecision, At, Types, Prepared
  <2>3. \A h \in Signers : h # req[s].signer => entries'[h] = entries[h]
    BY <1>4 DEF CommitDecision, Types, TypeOK
  <2>4. EntryLocked'
    <3>1. \A t \in Slots \ {s} : At(t, "counted") =>
             req[t].signer # req[s].signer /\ req[t].signer \in Signers
      BY <2>2 DEF SignatureInv, EntryLocked, Types, Prepared, At
    <3> QED BY <2>1, <2>3, <3>1 DEF SignatureInv, EntryLocked, Same, At
  <2>5. WritersKnow'
    <3>1. request' # "none"
      <4>1. request # "none"
        BY <2>2 DEF SignatureInv, WritersKnow, At
      <4>2. (CHOOSE x \in req[s].held : TRUE) # "none"
        BY <2>2 DEF At, Types, Prepared
      <4> QED BY <1>4, <4>1, <4>2 DEF CommitDecision
    <3>2. ASSUME NEW t \in Slots \ {s}, req[t].step \in {"decide", "counted", "cancel"}
          PROVE  request' = "OPEN" \/ req'[t].overlap
      BY <2>1, <3>2 DEF SignatureInv, WritersKnow, Same
    <3> QED BY <2>1, <3>1, <3>2 DEF WritersKnow, Same
  <2>6. CountCurrent'
    BY <2>1 DEF CountCurrent, Same, At
  <2> QED BY <1>4, <2>4, <2>5, <2>6, CommitSound DEF SignatureInv
<1>5. ASSUME NEW s \in Slots, ReadCancel(s) PROVE SignatureInv'
  <2>1. /\ req'[s].step = "cancel" /\ request = "OPEN"
        /\ \A t \in Slots \ {s} : req'[t] = req[t]
    BY <1>5, GotoReq, NewRequests DEF ReadCancel
  <2>2. UNCHANGED <<request, entries, raced>>
    BY <1>5 DEF ReadCancel
  <2>3. EntryLocked'
    BY <2>1, <2>2 DEF SignatureInv, EntryLocked, At
  <2>4. WritersKnow'
    BY <2>1, <2>2 DEF SignatureInv, WritersKnow, At
  <2>5. CountCurrent'
    BY <2>1, <2>2 DEF SignatureInv, CountCurrent, At, Outcome, Remaining
  <2>6. SignaturesSound'
    BY <2>2 DEF SignatureInv, SignaturesSound, CompletedIffSigned, RefusalEnds
  <2> QED BY <2>3, <2>4, <2>5, <2>6 DEF SignatureInv
<1>6. ASSUME NEW s \in Slots, WriteCancel(s) PROVE SignatureInv'
  <2>1. /\ req'[s].step = "idle"
        /\ \A t \in Slots \ {s} : Same(t)
        /\ \A t \in Slots \ {s} : req[t].step \in {"decide", "counted", "cancel"}
                                    => req'[t].overlap
    BY <1>6, TouchReq, IdleType DEF WriteCancel
  <2>2. request' = "CANCELLED" /\ entries' = entries /\ req[s].step = "cancel"
    BY <1>6 DEF WriteCancel, At
  <2>3. EntryLocked'
    BY <2>1, <2>2 DEF SignatureInv, EntryLocked, Same, At
  <2>4. WritersKnow'
    BY <2>1, <2>2 DEF WritersKnow, Same
  <2>5. CountCurrent'
    BY <2>1 DEF CountCurrent, Same, At
  <2>6. SignaturesSound'
    <3>1. raced' \/ request = "OPEN"
      BY <1>6, <2>2 DEF WriteCancel, SignatureInv, WritersKnow
    <3>2. raced' \/ ~raced
      BY <1>6 DEF WriteCancel, Types, TypeOK
    <3> QED BY <2>2, <3>1, <3>2 DEF SignatureInv, SignaturesSound, CompletedIffSigned, RefusalEnds
  <2> QED BY <2>3, <2>4, <2>5, <2>6 DEF SignatureInv
<1> QED BY <1>1, <1>2, <1>3, <1>4, <1>5, <1>6 DEF SignatureActions

LEMMA SignatureInit == Init => SignatureInv
BY SharingAssumption, IdleType DEF Init, SignatureInv, EntryLocked, WritersKnow, CountCurrent,
   SignaturesSound, CompletedIffSigned, RefusalEnds, At, IsRequest

LEMMA SignatureNext == ASSUME Types, SignatureInv, [Next]_vars PROVE SignatureInv'
<1>1. ASSUME UNCHANGED vars PROVE SignatureInv'
  <2>1. Within({}) /\ UNCHANGED <<request, entries>>
    BY <1>1, StayWithin DEF vars
  <2> QED BY <2>1, SignatureKept
<1>2. ASSUME LinkActions \/ ShareActions \/ ReminderActions \/ MarkActions \/ ReaderActions
             \/ OtherActions
      PROVE  SignatureInv'
  BY <1>2, SignatureKept, LinkFrame, ShareFrame, ReminderFrame, MarkFrame, ReaderFrame,
     OtherFrame
<1> QED BY <1>1, <1>2, Groups, SignatureSteps

(***************************************************************************)
(* Links and the files that are sent                                       *)
(***************************************************************************)

LEMMA LinkKept ==
  ASSUME Types, LinkInv, NEW steps, Within(steps),
         steps \cap {"disabled", "linking"} = {}, UNCHANGED <<enabled, link, served>>
  PROVE  LinkInv'
<1>1. CountsServed'
  BY DEF LinkInv, CountsServed
<1>2. CreatorsKnow'
  BY DEF LinkInv, CreatorsKnow, Within, Same, At
<1>3. DisabledClosesLinks'
  BY DEF LinkInv, DisabledClosesLinks, Within, Same, At
<1> QED BY <1>1, <1>2, <1>3 DEF LinkInv

LEMMA LinkSteps == ASSUME Types, LinkInv, LinkActions PROVE LinkInv'
<1> USE DEF signing, linking, naming
<1>1. ASSUME Revoke \/ LinkExpires PROVE LinkInv'
  <2>1. /\ UNCHANGED <<enabled, served, req, raced>> /\ link.there
        /\ link'.there = link.there /\ link'.max = link.max /\ link'.count = link.count
        /\ link.revoked => link'.revoked
    BY <1>1 DEF Revoke, LinkExpires, Types, TypeOK
  <2> QED BY <2>1 DEF LinkInv, CountsServed, CreatorsKnow, DisabledClosesLinks, At
<1>2. ASSUME NEW s \in Slots, NEW on \in BOOLEAN, SaveSharing(s, on) PROVE LinkInv'
  <2>1. /\ req'[s].step = IF on THEN "idle" ELSE "disabled"
        /\ \A t \in Slots \ {s} : Same(t)
        /\ \A t \in Slots \ {s} : req[t].step \in {"linking", "disabled"} => req'[t].overlap
    BY <1>2, TouchReq, IdleType, NewRequests DEF SaveSharing
  <2>2. UNCHANGED <<link, served, raced>> /\ enabled' = on
    BY <1>2 DEF SaveSharing
  <2>3. CreatorsKnow'
    BY <2>1 DEF CreatorsKnow, Same, At
  <2>4. DisabledClosesLinks'
    BY <2>1, <2>2 DEF DisabledClosesLinks, At
  <2> QED BY <2>2, <2>3, <2>4 DEF LinkInv, CountsServed
<1>3. ASSUME NEW s \in Slots, NEW max \in Limits, CheckShare(s, max) PROVE LinkInv'
  <2>1. /\ req'[s].step = "linking" /\ req[s].step = "idle"
        /\ \A t \in Slots \ {s} : req'[t] = req[t]
    BY <1>3, GotoReq, NewRequests DEF CheckShare, At
  <2>2. UNCHANGED <<enabled, link, served, raced>> /\ enabled
    BY <1>3 DEF CheckShare
  <2> QED BY <2>1, <2>2 DEF LinkInv, CountsServed, CreatorsKnow, DisabledClosesLinks, At
<1>4. ASSUME NEW s \in Slots, CloseLinks(s) PROVE LinkInv'
  <2>1. req'[s].step = "idle" /\ \A t \in Slots \ {s} : req'[t] = req[t]
    BY <1>4, GotoReq, IdleType DEF CloseLinks
  <2>2. /\ UNCHANGED <<enabled, served, raced>>
        /\ link'.max = link.max /\ link'.count = link.count /\ link'.there = link.there
        /\ link.there => link'.revoked
        /\ ~link.there => link' = link
    BY <1>4 DEF CloseLinks, Closed, Types, TypeOK
  <2> QED BY <2>1, <2>2 DEF LinkInv, CountsServed, CreatorsKnow, DisabledClosesLinks, At
<1>5. ASSUME NEW s \in Slots, CreateLink(s) PROVE LinkInv'
  <2>1. /\ req'[s].step = "idle" /\ req[s].step = "linking"
        /\ \A t \in Slots \ {s} : req'[t] = req[t]
    BY <1>5, GotoReq, IdleType DEF CreateLink, At
  <2>2. UNCHANGED <<enabled, served>>
    BY <1>5 DEF CreateLink
  <2>3. CreatorsKnow'
    BY <2>1, <2>2 DEF LinkInv, CreatorsKnow, At
  <2>4. CASE link.there
    BY <1>5, <2>1, <2>2, <2>3, <2>4 DEF CreateLink, LinkInv, CountsServed,
       DisabledClosesLinks, At
  <2>5. CASE ~link.there
    <3>1. PICK max \in Limits : link' = [NoLink EXCEPT !.there = TRUE, !.max = max]
      <4>1. req[s].held \subseteq Limits
        BY <2>1 DEF Types, Prepared
      <4> QED BY <1>5, <2>5, <4>1 DEF CreateLink
    <3>2. link'.there /\ link'.count = 0 /\ link'.max = max
      BY <3>1 DEF NoLink
    <3>3. served = 0
      BY <2>5 DEF LinkInv, CountsServed, NoLink
    <3>4. CountsServed'
      BY <2>2, <3>2, <3>3, SharingAssumption DEF CountsServed
    <3>5. enabled \/ raced'
      BY <1>5, <2>1, <2>5 DEF CreateLink, LinkInv, CreatorsKnow, At
    <3>6. DisabledClosesLinks'
      BY <2>2, <3>5 DEF DisabledClosesLinks
    <3> QED BY <2>3, <3>4, <3>6 DEF LinkInv
  <2> QED BY <2>4, <2>5
<1>6. ASSUME NEW s \in Slots, OpenLink(s) PROVE LinkInv'
  <2>1. link.count \in Nat
    BY DEF Types, TypeOK
  <2>2. /\ req'[s].step = "consume" /\ req[s].step = "idle"
        /\ \A t \in Slots \ {s} : req'[t] = req[t]
    BY <1>6, <2>1, GotoReq, NewRequests DEF OpenLink, At
  <2>3. UNCHANGED <<enabled, link, served, raced>>
    BY <1>6 DEF OpenLink
  <2> QED BY <2>2, <2>3 DEF LinkInv, CountsServed, CreatorsKnow, DisabledClosesLinks, At
<1>7. ASSUME NEW s \in Slots, Consume(s) PROVE LinkInv'
  <2>1. /\ req'[s].step \in {"idle", "sending"} /\ req[s].step = "consume"
        /\ \A t \in Slots \ {s} : req'[t] = req[t]
    <3>1. Goto(s, [req[s] EXCEPT !.step = "sending"]) \/ Goto(s, Idle)
      BY <1>7 DEF Consume
    <3>2. IsRequest([req[s] EXCEPT !.step = "sending"], "sending")
      BY NextRequests
    <3>3. At(s, "consume")
      BY <1>7 DEF Consume
    <3> QED BY <3>1, <3>2, <3>3, GotoReq, IdleType DEF At
  <2>2. UNCHANGED <<enabled, raced>>
    BY <1>7 DEF Consume
  <2>3. CreatorsKnow'
    BY <2>1, <2>2 DEF LinkInv, CreatorsKnow, At
  <2>4. CASE UNCHANGED <<link, served>>
    BY <2>1, <2>2, <2>3, <2>4 DEF LinkInv, CountsServed, DisabledClosesLinks, At
  <2>5. CASE ~UNCHANGED <<link, served>>
    <3>1. /\ Consumable(s) /\ link.max # None
          /\ link' = [link EXCEPT !.count = @ + 1] /\ served' = served + 1
      BY <1>7, <2>5 DEF Consume
    <3>2. /\ link'.there = link.there /\ link'.revoked = link.revoked
          /\ link'.max = link.max /\ link'.count = link.count + 1
          /\ link.count \in Nat /\ served \in Nat
      BY <3>1 DEF Types, TypeOK
    <3>3. link.max \in Nat /\ link.count < link.max
      BY <3>1, SharingAssumption DEF Consumable, Types, TypeOK
    <3>4. link.there
      BY <3>1 DEF LinkInv, CountsServed, NoLink
    <3>5. CountsServed'
      BY <3>1, <3>2, <3>3, <3>4 DEF LinkInv, CountsServed
    <3>6. DisabledClosesLinks'
      BY <2>1, <2>2, <3>2 DEF LinkInv, DisabledClosesLinks, At
    <3> QED BY <2>3, <3>5, <3>6 DEF LinkInv
  <2> QED BY <2>4, <2>5
<1> QED BY <1>1, <1>2, <1>3, <1>4, <1>5, <1>6, <1>7 DEF LinkActions

LEMMA LinkInit == Init => LinkInv
BY IdleType DEF Init, LinkInv, CountsServed, CreatorsKnow, DisabledClosesLinks, At, IsRequest,
   NoLink

LEMMA LinkNext == ASSUME Types, LinkInv, [Next]_vars PROVE LinkInv'
<1>1. ASSUME UNCHANGED vars PROVE LinkInv'
  <2>1. Within({}) /\ UNCHANGED <<enabled, link, served>>
    BY <1>1, StayWithin DEF vars
  <2> QED BY <2>1, LinkKept
<1>2. ASSUME SignatureActions \/ ShareActions \/ ReminderActions \/ MarkActions
             \/ ReaderActions \/ OtherActions
      PROVE  LinkInv'
  BY <1>2, LinkKept, SignatureFrame, ShareFrame, ReminderFrame, MarkFrame, ReaderFrame,
     OtherFrame
<1> QED BY <1>1, <1>2, Groups, LinkSteps

LEMMA OriginalKept ==
  ASSUME Types, OriginalsPlain, NEW steps, Within(steps),
         steps \cap {"consume", "sending"} = {}, doc'.sensitive = doc.sensitive
  PROVE  OriginalsPlain'
BY DEF OriginalsPlain, Within, Same

LEMMA OriginalNext == ASSUME Types, OriginalsPlain, [Next]_vars PROVE OriginalsPlain'
<1> USE DEF signing, linking, naming
<1>1. ASSUME UNCHANGED vars PROVE OriginalsPlain'
  BY <1>1 DEF vars, OriginalsPlain
<1>2. ASSUME SignatureActions \/ ShareActions \/ ReminderActions \/ OtherActions
      PROVE  OriginalsPlain'
  BY <1>2, OriginalKept, SignatureFrame, ShareFrame, ReminderFrame, OtherFrame
<1>3. ASSUME Revoke \/ LinkExpires PROVE OriginalsPlain'
  BY <1>3 DEF Revoke, LinkExpires, OriginalsPlain
<1>4. ASSUME NEW s \in Slots, NEW on \in BOOLEAN, SaveSharing(s, on) PROVE OriginalsPlain'
  <2>1. req'[s].step \in {"idle", "disabled"} /\ \A t \in Slots \ {s} : Same(t)
    BY <1>4, TouchReq, IdleType, NewRequests DEF SaveSharing
  <2> QED BY <1>4, <2>1 DEF SaveSharing, OriginalsPlain, Same
<1>5. ASSUME NEW s \in Slots, (\E max \in Limits : CheckShare(s, max)) \/ CloseLinks(s)
             \/ CreateLink(s)
      PROVE  OriginalsPlain'
  <2>1. req'[s].step \in {"idle", "linking"} /\ \A t \in Slots \ {s} : req'[t] = req[t]
    <3>1. ASSUME NEW max \in Limits, CheckShare(s, max)
          PROVE  req'[s].step = "linking" /\ \A t \in Slots \ {s} : req'[t] = req[t]
      <4>1. IsRequest([Idle EXCEPT !.step = "linking", !.held = {max}], "linking")
        BY NewRequests
      <4> QED BY <3>1, <4>1, GotoReq DEF CheckShare
    <3>2. ASSUME CloseLinks(s) \/ CreateLink(s)
          PROVE  req'[s].step = "idle" /\ \A t \in Slots \ {s} : req'[t] = req[t]
      BY <3>2, GotoReq, IdleType DEF CloseLinks, CreateLink
    <3> QED BY <1>5, <3>1, <3>2
  <2> QED BY <1>5, <2>1 DEF CheckShare, CloseLinks, CreateLink, OriginalsPlain
<1>6. ASSUME NEW s \in Slots, OpenLink(s) PROVE OriginalsPlain'
  <2>1. link.count \in Nat
    BY DEF Types, TypeOK
  <2>2. \A t \in Slots \ {s} : req'[t] = req[t]
    BY <1>6, <2>1, GotoReq, NewRequests DEF OpenLink
  <2> QED BY <1>6, <2>2 DEF OpenLink, Valid, OriginalsPlain
<1>7. ASSUME NEW s \in Slots, Consume(s) PROVE OriginalsPlain'
  <2>1. \A t \in Slots \ {s} : req'[t] = req[t]
    BY <1>7, GotoReq, NextRequests, IdleType DEF Consume
  <2>2. \/ req'[s].step = "idle"
        \/ req'[s] = [req[s] EXCEPT !.step = "sending"]
    BY <1>7, GotoReq, NextRequests, IdleType DEF Consume
  <2>3. /\ [req[s] EXCEPT !.step = "sending"].what = req[s].what
        /\ [req[s] EXCEPT !.step = "sending"].overlap = req[s].overlap
    BY DEF Types, Requests
  <2>4. \/ req'[s].step = "idle"
        \/ req'[s].what = req[s].what /\ req'[s].overlap = req[s].overlap
    BY <2>2, <2>3
  <2>5. doc' = doc /\ req[s].step = "consume"
    BY <1>7 DEF Consume, At
  <2> QED BY <2>1, <2>4, <2>5 DEF OriginalsPlain
<1>8. ASSUME NEW s \in Slots, NEW on \in BOOLEAN, CheckSensitivity(s, on)
      PROVE  OriginalsPlain'
  <2>1. PICK n \in Nat : Goto(s, [Idle EXCEPT !.step = "mark", !.what = on, !.seen = n])
    BY <1>8 DEF CheckSensitivity
  <2>2. req'[s].step = "mark" /\ \A t \in Slots \ {s} : req'[t] = req[t]
    BY <2>1, GotoReq, NewRequests
  <2> QED BY <1>8, <2>2 DEF CheckSensitivity, OriginalsPlain
<1>9. ASSUME NEW s \in Slots, WriteSensitivity(s) PROVE OriginalsPlain'
  <2>1. /\ req'[s].step \in {"idle", "unmarked", "stamp"}
        /\ \A t \in Slots \ {s} : Same(t) /\ (req[t].step \in Readers => req'[t].overlap)
    <3> DEFINE T == Readers \cup {"mark", "stamp", "unmarked", "naming", "replacing"}
    <3>1. PICK r, step : IsRequest(r, step) /\ step \in {"idle", "unmarked", "stamp"}
                         /\ Touch(s, r, T)
      BY <1>9, NextRequests, IdleType DEF WriteSensitivity
    <3> QED BY <3>1, TouchReq
  <2> QED BY <2>1 DEF OriginalsPlain, Same, Readers
<1>10. ASSUME NEW s \in Slots, Stamp(s) \/ StampFails(s) \/ Withdraw(s) PROVE OriginalsPlain'
  <2>1. doc'.sensitive => doc.sensitive
    BY <1>10 DEF Stamp, Stamped, StampFails, Withdraw, Types, TypeOK
  <2>2. req'[s].step = "idle" /\ \A t \in Slots \ {s} : Same(t) \/ req'[t] = req[t]
    BY <1>10, GotoReq, TouchReq, IdleType DEF Stamp, StampFails, Withdraw
  <2> QED BY <2>1, <2>2 DEF OriginalsPlain, Same
<1>11. ASSUME NEW s \in Slots, NEW ok \in BOOLEAN, OpenDocument(s, ok) PROVE OriginalsPlain'
  <2>1. PICK step \in {"prepare", "sending"}, file \in {"original", "copy", "none"} :
          /\ Goto(s, [Idle EXCEPT !.step = step, !.what = file])
          /\ file = FileOf
    BY <1>11 DEF OpenDocument, FileOf
  <2>2. \A t \in Slots \ {s} : req'[t] = req[t]
    BY <2>1, GotoReq, NewRequests
  <2>3. req'[s].what = FileOf
    BY <1>11 DEF OpenDocument, Goto, Idle, Types
  <2> QED BY <1>11, <2>2, <2>3 DEF OpenDocument, FileOf, OriginalsPlain
<1>12. ASSUME NEW s \in Slots, NEW ok \in BOOLEAN, PrepareCopy(s, ok) PROVE OriginalsPlain'
  <2>1. \A t \in Slots \ {s} : req'[t] = req[t]
    BY <1>12, GotoReq, NextRequests, IdleType DEF PrepareCopy
  <2>2. req'[s].step = "idle" \/ req'[s] = [req[s] EXCEPT !.step = "sending", !.what = "copy"]
    BY <1>12, GotoReq, NextRequests, IdleType DEF PrepareCopy
  <2>3. [req[s] EXCEPT !.step = "sending", !.what = "copy"].what = "copy"
    BY DEF Types, Requests
  <2>4. doc'.sensitive = doc.sensitive
    BY <1>12 DEF PrepareCopy, Stamped, Types, TypeOK
  <2>5. req'[s].step = "idle" \/ req'[s].what = "copy"
    BY <2>2, <2>3
  <2> QED BY <2>1, <2>4, <2>5 DEF OriginalsPlain
<1>13. ASSUME NEW s \in Slots, Send(s) PROVE OriginalsPlain'
  <2>1. req'[s].step = "idle" /\ \A t \in Slots \ {s} : req'[t] = req[t]
    BY <1>13, GotoReq, IdleType DEF Send
  <2> QED BY <1>13, <2>1 DEF Send, OriginalsPlain
<1>14. ASSUME LinkActions PROVE OriginalsPlain'
  BY <1>14, <1>3, <1>4, <1>5, <1>6, <1>7 DEF LinkActions
<1>15. ASSUME MarkActions PROVE OriginalsPlain'
  BY <1>15, <1>8, <1>9, <1>10 DEF MarkActions
<1>16. ASSUME ReaderActions PROVE OriginalsPlain'
  BY <1>16, <1>11, <1>12, <1>13 DEF ReaderActions
<1> QED BY <1>1, <1>2, <1>14, <1>15, <1>16, Groups

LEMMA OriginalInit == Init => OriginalsPlain
BY DEF Init, OriginalsPlain

(***************************************************************************)
(* Named shares                                                            *)
(***************************************************************************)

LEMMA NamedKept ==
  ASSUME Types, NamedInv, NEW steps, Within(steps),
         steps \cap {"naming", "replacing", "mark", "stamp", "unmarked"} = {},
         doc'.sensitive = doc.sensitive,
         \A h \in Shares : Active(h)' => Active(h)
  PROVE  NamedInv'
<1>1. ASSUME NEW t \in Slots,
             req'[t].step \in {"naming", "replacing", "mark", "stamp", "unmarked"}
      PROVE  Same(t)
  BY <1>1 DEF Within
<1>2. Withdrawing => raced' \/ Withdrawing'
  BY DEF Within, Withdrawing, Same, At
<1>3. SharersKnow'
  BY <1>1 DEF NamedInv, SharersKnow, Same, At
<1>4. MarkersKnow'
  BY <1>1, <1>2 DEF NamedInv, MarkersKnow, NoneActive, Same, At, Within
<1>5. OneActive' /\ NoShareOfPlain'
  BY <1>2 DEF NamedInv, OneActive, NoShareOfPlain, Withdrawing, Within
<1> QED BY <1>3, <1>4, <1>5 DEF NamedInv

LEMMA RevokedStates ==
  ASSUME Types, NEW held, NEW h \in Shares
  PROVE  /\ Revoked(held)[h].reminded = shares[h].reminded
         /\ Revoked(held)[h].state = "active" <=> Active(h) /\ h \notin held
         /\ Revoked(held)[h].state = "none" <=> shares[h].state = "none"
BY DEF Revoked, Active, Types, TypeOK

LEMMA NamedShareSteps == ASSUME Types, NamedInv, ShareActions PROVE NamedInv'
<1> USE DEF signing, linking, naming
<1>1. ASSUME NEW h \in Shares, RevokeShare(h) \/ ShareAges(h) PROVE NamedInv'
  <2>1. \A k \in Shares : Active(k)' => Active(k)
    BY <1>1, RevokedStates DEF RevokeShare, ShareAges, Active, Types, TypeOK
  <2>2. Within({}) /\ doc' = doc
    BY <1>1, StayWithin DEF RevokeShare, ShareAges
  <2> QED BY <2>1, <2>2, NamedKept
<1>2. ASSUME NEW s \in Slots, CheckNamedShare(s) PROVE NamedInv'
  <2>1. /\ req'[s].step = "naming" /\ req[s].step = "idle"
        /\ \A t \in Slots \ {s} : req'[t] = req[t]
    BY <1>2, GotoReq, NewRequests DEF CheckNamedShare, At
  <2>2. UNCHANGED <<doc, shares, raced>> /\ doc.sensitive
    BY <1>2 DEF CheckNamedShare
  <2>3. Withdrawing' <=> Withdrawing
    BY <2>1 DEF Withdrawing, At
  <2>4. SharersKnow'
    BY <2>1, <2>2 DEF NamedInv, SharersKnow, Active, At
  <2>5. MarkersKnow'
    BY <2>1, <2>2, <2>3 DEF NamedInv, MarkersKnow, NoneActive, Active, At
  <2> QED BY <2>2, <2>4, <2>5 DEF NamedInv, OneActive, NoShareOfPlain, Active
<1>3. ASSUME NEW s \in Slots, ReplacePrevious(s) PROVE NamedInv'
  <2>1. /\ req'[s] = [req[s] EXCEPT !.step = "replacing", !.held = Previous]
        /\ \A t \in Slots \ {s} : req'[t] = req[t]
        /\ req[s].step = "naming"
    BY <1>3, GotoReq, NextRequests DEF ReplacePrevious, At
  <2>2. /\ req'[s].step = "replacing" /\ req'[s].held = Previous
        /\ req'[s].overlap = req[s].overlap
    BY <2>1 DEF Types, Requests
  <2>3. UNCHANGED <<doc, shares, raced>>
    BY <1>3 DEF ReplacePrevious
  <2>4. Withdrawing' <=> Withdrawing
    BY <2>1, <2>2 DEF Withdrawing, At
  <2>5. SharersKnow'
    BY <2>1, <2>2, <2>3 DEF NamedInv, SharersKnow, Active, At, Previous
  <2>6. MarkersKnow'
    BY <2>1, <2>2, <2>3, <2>4 DEF NamedInv, MarkersKnow, NoneActive, Active, At
  <2>7. OneActive' /\ NoShareOfPlain'
    BY <2>3, <2>4 DEF NamedInv, OneActive, NoShareOfPlain, Active, Withdrawing
  <2> QED BY <2>5, <2>6, <2>7 DEF NamedInv
<1>4. ASSUME NEW s \in Slots, NEW h \in Shares, NEW ends \in {"never", "later"},
             CommitNamedShare(s, h, ends)
      PROVE  NamedInv'
  <2>1. /\ req'[s].step = "idle" /\ req[s].step = "replacing"
        /\ \A t \in Slots \ {s} : Same(t)
        /\ \A t \in Slots \ {s} : req[t].step \in {"replacing", "stamp"} => req'[t].overlap
    BY <1>4, TouchReq, IdleType DEF CommitNamedShare, At
  <2>2. doc' = doc /\ raced' = (raced \/ req[s].overlap)
    BY <1>4 DEF CommitNamedShare
  <2>3. \A k \in Shares : Active(k)' => k = h \/ (Active(k) /\ k \notin req[s].held)
    BY <1>4, RevokedStates, RevokedType DEF CommitNamedShare, Active
  <2>4. SharersKnow'
    BY <2>1, <2>2 DEF NamedInv, SharersKnow, Same, At
  <2>5. MarkersKnow'
    BY <2>1, <2>2 DEF NamedInv, MarkersKnow, Same, At
  <2>6. raced' \/ (doc.sensitive /\ \A k \in Shares : Active(k)' => k = h)
    BY <2>1, <2>2, <2>3 DEF NamedInv, SharersKnow, At
  <2>7. OneActive' /\ NoShareOfPlain'
    BY <2>2, <2>6 DEF OneActive, NoShareOfPlain
  <2> QED BY <2>4, <2>5, <2>7 DEF NamedInv
<1> QED BY <1>1, <1>2, <1>3, <1>4 DEF ShareActions

LEMMA NamedMarkSteps == ASSUME Types, NamedInv, MarkActions PROVE NamedInv'
<1> USE DEF signing, linking, naming
<1>1. ASSUME NEW s \in Slots, NEW on \in BOOLEAN, CheckSensitivity(s, on) PROVE NamedInv'
  <2>1. PICK n \in Nat : Goto(s, [Idle EXCEPT !.step = "mark", !.what = on, !.seen = n])
    BY <1>1 DEF CheckSensitivity
  <2>2. /\ req'[s] = [Idle EXCEPT !.step = "mark", !.what = on, !.seen = n]
        /\ req'[s].step = "mark" /\ req[s].step = "idle"
        /\ \A t \in Slots \ {s} : req'[t] = req[t]
    <3>1. IsRequest([Idle EXCEPT !.step = "mark", !.what = on, !.seen = n], "mark")
      BY NewRequests
    <3> QED BY <1>1, <2>1, <3>1, GotoReq DEF CheckSensitivity, At
  <2>3. req'[s].what = on
    BY <2>2 DEF Idle
  <2>4. UNCHANGED <<doc, shares, raced>> /\ doc.sensitive # on /\ doc.sensitive \in BOOLEAN
    BY <1>1 DEF CheckSensitivity, Types, TypeOK
  <2>5. Withdrawing' <=> Withdrawing
    BY <2>2 DEF Withdrawing, At
  <2>6. SharersKnow'
    BY <2>2, <2>4 DEF NamedInv, SharersKnow, Active, At
  <2>7. MarkersKnow'
    BY <2>2, <2>3, <2>4, <2>5 DEF NamedInv, MarkersKnow, NoneActive, Active, At
  <2>8. OneActive' /\ NoShareOfPlain'
    BY <2>4, <2>5 DEF NamedInv, OneActive, NoShareOfPlain, Active, Withdrawing
  <2> QED BY <2>6, <2>7, <2>8 DEF NamedInv
<1>2. ASSUME NEW s \in Slots, WriteSensitivity(s) PROVE NamedInv'
  <2> DEFINE T == Readers \cup {"mark", "stamp", "unmarked", "naming", "replacing"}
  <2>0. /\ [req[s] EXCEPT !.step = "unmarked"].overlap = req[s].overlap
        /\ [req[s] EXCEPT !.step = "stamp"].overlap = req[s].overlap
    BY DEF Types, Requests
  <2>1. PICK r, step : /\ IsRequest(r, step) /\ Touch(s, r, T)
                       /\ \/ step = "unmarked" /\ ~req[s].what
                          \/ step = "stamp" /\ req[s].what /\ r.overlap = req[s].overlap
                          \/ step = "idle" /\ req[s].what
    BY <1>2, <2>0, NextRequests, IdleType DEF WriteSensitivity
  <2>2. /\ req'[s] = r /\ req'[s].step = step
        /\ \A t \in Slots \ {s} : Same(t) /\ (req[t].step \in T => req'[t].overlap)
    BY <2>1, TouchReq
  <2>3. /\ UNCHANGED <<shares, raced>> /\ req[s].step = "mark" /\ req[s].what \in BOOLEAN
        /\ doc'.sensitive = req[s].what
    BY <1>2 DEF WriteSensitivity, At, Types, TypeOK, Prepared
  <2>4. SharersKnow'
    BY <2>1, <2>2 DEF SharersKnow, Same, At
  <2>5. (Withdrawing => Withdrawing') /\ (step = "unmarked" => Withdrawing')
    BY <2>2, <2>3 DEF Withdrawing, Same, At
  <2>6. ASSUME step = "stamp" PROVE raced' \/ req'[s].overlap \/ NoneActive' \/ Withdrawing'
    <3>1. req[s].what = TRUE /\ req'[s].overlap = req[s].overlap
      BY <2>1, <2>2, <2>3, <2>6
    <3>2. ~doc.sensitive \/ req[s].overlap
      BY <2>3, <3>1 DEF NamedInv, MarkersKnow, At
    <3> QED BY <2>3, <2>5, <3>1, <3>2 DEF NamedInv, NoShareOfPlain, NoneActive, Withdrawing,
               Active
  <2>7. MarkersKnow'
    BY <2>1, <2>2, <2>6 DEF MarkersKnow, Same, At
  <2>8. OneActive' /\ NoShareOfPlain'
    BY <2>1, <2>3, <2>5 DEF NamedInv, OneActive, NoShareOfPlain, Withdrawing, Active
  <2> QED BY <2>4, <2>7, <2>8 DEF NamedInv
<1>3. ASSUME NEW s \in Slots, Stamp(s) PROVE NamedInv'
  <2>1. /\ req'[s].step = "idle" /\ req[s].step = "stamp"
        /\ \A t \in Slots \ {s} : req'[t] = req[t]
    BY <1>3, GotoReq, IdleType DEF Stamp, At
  <2>2. UNCHANGED <<shares, raced>> /\ doc'.sensitive = doc.sensitive
    BY <1>3 DEF Stamp, Stamped, Types, TypeOK
  <2>3. Withdrawing' <=> Withdrawing
    BY <2>1 DEF Withdrawing, At
  <2>4. SharersKnow'
    BY <2>1, <2>2 DEF NamedInv, SharersKnow, Active, At
  <2>5. MarkersKnow'
    BY <2>1, <2>2, <2>3 DEF NamedInv, MarkersKnow, NoneActive, Active, At
  <2>6. OneActive' /\ NoShareOfPlain'
    BY <2>2, <2>3 DEF NamedInv, OneActive, NoShareOfPlain, Active, Withdrawing
  <2> QED BY <2>4, <2>5, <2>6 DEF NamedInv
<1>4. ASSUME NEW s \in Slots, StampFails(s) PROVE NamedInv'
  <2> DEFINE T == {"mark", "stamp", "unmarked", "naming", "replacing"}
  <2>1. /\ req'[s].step = "idle" /\ req[s].step = "stamp"
        /\ \A t \in Slots \ {s} : Same(t) /\ (req[t].step \in T => req'[t].overlap)
    BY <1>4, TouchReq, IdleType DEF StampFails, At
  <2>2. shares' = shares /\ raced' = (raced \/ req[s].overlap)
    BY <1>4 DEF StampFails
  <2>3. Withdrawing' <=> Withdrawing
    BY <2>1 DEF Withdrawing, Same, At
  <2>4. SharersKnow' /\ MarkersKnow'
    BY <2>1 DEF SharersKnow, MarkersKnow, Same, At
  <2>5. OneActive'
    BY <2>2 DEF NamedInv, OneActive, Active
  <2>6. NoShareOfPlain'
    BY <2>1, <2>2, <2>3 DEF NamedInv, MarkersKnow, NoShareOfPlain, NoneActive, Active,
       Withdrawing, At
  <2> QED BY <2>4, <2>5, <2>6 DEF NamedInv
<1>5. ASSUME NEW s \in Slots, Withdraw(s) PROVE NamedInv'
  <2>1. req'[s].step = "idle" /\ \A t \in Slots \ {s} : Same(t)
    BY <1>5, TouchReq, IdleType DEF Withdraw
  <2>2. \A h \in Shares : ~Active(h)'
    BY <1>5, RevokedStates DEF Withdraw, Withdrawn, Active
  <2>3. doc' = doc
    BY <1>5 DEF Withdraw
  <2>4. SharersKnow' /\ MarkersKnow'
    BY <2>1, <2>2, <2>3 DEF NamedInv, SharersKnow, MarkersKnow, NoneActive, Same, At
  <2>5. OneActive' /\ NoShareOfPlain'
    BY <2>2 DEF OneActive, NoShareOfPlain
  <2> QED BY <2>4, <2>5 DEF NamedInv
<1> QED BY <1>1, <1>2, <1>3, <1>4, <1>5 DEF MarkActions

LEMMA NamedInit == Init => NamedInv
BY IdleType DEF Init, NamedInv, SharersKnow, MarkersKnow, OneActive, NoShareOfPlain, At,
   IsRequest, Active, NoShare

LEMMA NamedNext == ASSUME Types, NamedInv, [Next]_vars PROVE NamedInv'
<1>1. ASSUME UNCHANGED vars PROVE NamedInv'
  <2>1. Within({}) /\ UNCHANGED <<doc, shares>>
    BY <1>1, StayWithin DEF vars
  <2> QED BY <2>1, NamedKept DEF Active
<1>2. ASSUME SignatureActions \/ LinkActions \/ ReminderActions \/ ReaderActions
             \/ OtherActions
      PROVE  NamedInv'
  <2>1. doc'.sensitive = doc.sensitive /\ \A h \in Shares : Active(h)' => Active(h)
    BY <1>2, SignatureFrame, LinkFrame, ReminderFrame, ReaderFrame, OtherFrame DEF Active
  <2> QED BY <1>2, <2>1, NamedKept, SignatureFrame, LinkFrame, ReminderFrame, ReaderFrame,
         OtherFrame
<1> QED BY <1>1, <1>2, Groups, NamedShareSteps, NamedMarkSteps

(***************************************************************************)
(* Reminders                                                               *)
(***************************************************************************)

LEMMA ReminderKept ==
  ASSUME Types, ReminderInv, NEW steps, Within(steps), steps \cap {"due", "claimed"} = {},
         mails' = mails,
         \A h \in Shares : /\ shares'[h].reminded = shares[h].reminded
                           /\ shares[h].state # "none" => shares'[h].state # "none"
  PROVE  ReminderInv'
<1>1. ASSUME NEW t \in Slots, req'[t].step \in {"due", "claimed"} PROVE Same(t)
  BY <1>1 DEF Within
<1> QED BY <1>1 DEF ReminderInv, Same, At

LEMMA ReminderSteps == ASSUME Types, ReminderInv, ReminderActions PROVE ReminderInv'
<1> USE DEF signing, linking, naming
<1>1. ASSUME NEW s \in Slots, NEW h \in Shares, ReadDue(s, h) PROVE ReminderInv'
  <2>1. /\ req'[s] = [Idle EXCEPT !.step = "due", !.held = {h}]
        /\ req'[s].step = "due" /\ \A t \in Slots \ {s} : req'[t] = req[t]
    BY <1>1, GotoReq, NewRequests DEF ReadDue
  <2>2. /\ req'[s].held = {h} /\ req'[s].step = "due"
        /\ \A t \in Slots \ {s} : req'[t] = req[t]
    BY <2>1 DEF Idle
  <2>3. UNCHANGED <<shares, mails>> /\ shares[h].state # "none"
    BY <1>1 DEF ReadDue, Active
  <2> QED BY <2>2, <2>3 DEF ReminderInv, At
<1>2. ASSUME NEW s \in Slots, Claim(s) PROVE ReminderInv'
  <2>1. PICK h \in Shares : req[s].held = {h}
    BY <1>2 DEF Claim, At, Types, Prepared
  <2>2. mails' = mails /\ req[s].step = "due"
    BY <1>2 DEF Claim, At
  <2>3. \A t \in Slots \ {s} : req'[t] = req[t]
    BY <1>2, GotoReq, NextRequests, IdleType DEF Claim
  <2>4. CASE ~Claimable(h)
    <3>1. shares' = shares /\ req'[s].step = "idle"
      BY <1>2, <2>1, <2>4, GotoReq, IdleType DEF Claim
    <3> QED BY <2>2, <2>3, <3>1 DEF ReminderInv, At
  <2>5. CASE Claimable(h)
    <3>1. /\ shares' = [shares EXCEPT ![h].reminded = TRUE]
          /\ req'[s] = [req[s] EXCEPT !.step = "claimed"]
      BY <1>2, <2>1, <2>5, GotoReq, NextRequests DEF Claim
    <3>2. req'[s].step = "claimed" /\ req'[s].held = {h}
      BY <2>1, <3>1 DEF Types, Requests
    <3>3. /\ \A k \in Shares : shares'[k].state = shares[k].state
          /\ \A k \in Shares : shares[k].reminded => shares'[k].reminded
          /\ \A k \in Shares : k # h => shares'[k] = shares[k]
          /\ shares'[h].reminded
      BY <3>1 DEF Types, TypeOK
    <3>4. mails[h] = 0 /\ shares[h].state # "none"
      BY <2>1, <2>2, <2>5 DEF Claimable, ReminderInv
    <3>5. \A t \in Slots \ {s} : ~(At(t, "claimed") /\ h \in req[t].held)
      BY <2>5 DEF Claimable, ReminderInv
    <3> QED BY <2>2, <2>3, <3>2, <3>3, <3>4, <3>5 DEF ReminderInv, At
  <2> QED BY <2>4, <2>5
<1>3. ASSUME NEW s \in Slots, NEW ok \in BOOLEAN, Remind(s, ok) PROVE ReminderInv'
  <2>1. PICK h \in Shares : req[s].held = {h}
    BY <1>3 DEF Remind, At, Types, Prepared
  <2>2. req'[s].step = "idle" /\ \A t \in Slots \ {s} : req'[t] = req[t]
    BY <1>3, GotoReq, IdleType DEF Remind
  <2>3. shares' = shares /\ At(s, "claimed")
    BY <1>3 DEF Remind
  <2>4. mails' = mails \/ mails' = [mails EXCEPT ![h] = @ + 1]
    BY <1>3, <2>1 DEF Remind
  <2>5. shares[h].reminded /\ mails[h] = 0
    BY <2>1, <2>3 DEF ReminderInv
  <2>6. (mails'[h] = 0 \/ mails'[h] = 1) /\ \A k \in Shares : k # h => mails'[k] = mails[k]
    BY <2>4, <2>5 DEF Types, TypeOK
  <2>7. \A t \in Slots \ {s} : At(t, "claimed") => h \notin req[t].held
    BY <2>1, <2>3 DEF ReminderInv
  <2> QED BY <2>2, <2>3, <2>5, <2>6, <2>7 DEF ReminderInv, At
<1> QED BY <1>1, <1>2, <1>3 DEF ReminderActions

LEMMA ReminderNext == ASSUME Types, ReminderInv, [Next]_vars PROVE ReminderInv'
<1> USE DEF signing, linking, naming
<1>1. ASSUME UNCHANGED vars PROVE ReminderInv'
  BY <1>1 DEF vars, ReminderInv, At
<1>2. ASSUME SignatureActions \/ LinkActions \/ ReaderActions \/ OtherActions
      PROVE  ReminderInv'
  BY <1>2, ReminderKept, SignatureFrame, LinkFrame, ReaderFrame, OtherFrame
<1>3. ASSUME MarkActions PROVE ReminderInv'
  <2>1. \A h \in Shares : /\ shares'[h].reminded = shares[h].reminded
                          /\ shares[h].state # "none" => shares'[h].state # "none"
    <3>1. shares' = shares \/ shares' = Revoked(Shares)
      BY <1>3 DEF MarkActions, CheckSensitivity, WriteSensitivity, Stamp, StampFails,
         Withdraw, Withdrawn
    <3> QED BY <3>1, RevokedStates
  <2> QED BY <1>3, <2>1, ReminderKept, MarkFrame
<1>4. ASSUME ShareActions PROVE ReminderInv'
  <2>1. Within({"naming", "replacing"}) /\ mails' = mails
    BY <1>4, ShareFrame
  <2>2. ASSUME NEW s \in Slots, NEW h \in Shares, NEW ends \in {"never", "later"},
               CommitNamedShare(s, h, ends)
        PROVE  \A k \in Shares : /\ shares'[k].reminded = shares[k].reminded
                                 /\ shares[k].state # "none" => shares'[k].state # "none"
    <3>1. shares[h].state = "none" /\ ~shares[h].reminded /\ shares[h].reminded \in BOOLEAN
      BY <2>2 DEF CommitNamedShare, ReminderInv, Types, TypeOK
    <3>2. \A k \in Shares : k # h => shares'[k] = Revoked(req[s].held)[k]
      BY <2>2, RevokedType DEF CommitNamedShare
    <3>3. shares'[h].state = "active" /\ shares'[h].reminded = FALSE
      BY <2>2, RevokedType DEF CommitNamedShare, NoShare
    <3>4. shares'[h].reminded = shares[h].reminded
      BY <3>1, <3>3
    <3>5. ASSUME NEW k \in Shares, k # h
          PROVE  /\ shares'[k].reminded = shares[k].reminded
                 /\ shares[k].state # "none" => shares'[k].state # "none"
      BY <3>2, <3>5, RevokedStates
    <3> QED BY <3>1, <3>4, <3>5
  <2>3. ASSUME NEW h \in Shares, RevokeShare(h)
        PROVE  \A k \in Shares : /\ shares'[k].reminded = shares[k].reminded
                                 /\ shares[k].state # "none" => shares'[k].state # "none"
    BY <2>3, RevokedStates DEF RevokeShare
  <2>4. ASSUME NEW h \in Shares, ShareAges(h)
        PROVE  \A k \in Shares : /\ shares'[k].reminded = shares[k].reminded
                                 /\ shares[k].state # "none" => shares'[k].state # "none"
    BY <2>4 DEF ShareAges, Types, TypeOK
  <2>5. ASSUME NEW s \in Slots, CheckNamedShare(s) \/ ReplacePrevious(s)
        PROVE  shares' = shares
    BY <2>5 DEF CheckNamedShare, ReplacePrevious
  <2>6. \A k \in Shares : /\ shares'[k].reminded = shares[k].reminded
                          /\ shares[k].state # "none" => shares'[k].state # "none"
    BY <1>4, <2>2, <2>3, <2>4, <2>5 DEF ShareActions
  <2> QED BY <2>1, <2>6, ReminderKept
<1> QED BY <1>1, <1>2, <1>3, <1>4, Groups, ReminderSteps

LEMMA ReminderInit == Init => ReminderInv
BY IdleType DEF Init, ReminderInv, At, IsRequest, NoShare

(***************************************************************************)
(* The results                                                             *)
(***************************************************************************)

\* The rows keep the values of the schema, whatever requests overlap.
THEOREM TypeCorrect == Spec => []TypeOK
<1>1. Types => TypeOK
  BY DEF Types
<1> QED BY Typed, <1>1, PTL

LEMMA SignatureInvariant == Spec => []SignatureInv
BY Typed, SignatureInit, SignatureNext, PTL DEF Spec

LEMMA LinkInvariant == Spec => []LinkInv
BY Typed, LinkInit, LinkNext, PTL DEF Spec

\* decide and cancel: the status of a signature request is that of its entries
\* unless a write was made over one still under way, for any number of signers
\* and of requests that overlap.
THEOREM SignaturesAlwaysSound == Spec => []SignaturesSound
<1>1. SignatureInv => SignaturesSound
  BY DEF SignatureInv
<1> QED BY SignatureInvariant, <1>1, PTL

\* download and saveSharing: no more downloads than the limit of the link are
\* served, whatever overlaps; and no link outlives the switch, but for one that
\* was created while sharing was being switched off, or left by a request that
\* stopped between the setting and the links (raced).
THEOREM LinksAlwaysSound == Spec => []LinksSound
<1>1. LinkInv => LinksSound
  BY DEF LinkInv, LinksSound, CountsServed, DownloadsWithinLimit
<1> QED BY LinkInvariant, <1>1, PTL

\* download and deliver: the original of a sensitive document leaves only in a
\* request the marking overlapped.
THEOREM OriginalsStay == Spec => []NoPlainSensitive
<1>1. OriginalsPlain => NoPlainSensitive
  BY DEF OriginalsPlain, NoPlainSensitive, At
<1> QED BY Typed, OriginalInit, OriginalNext, <1>1, PTL DEF Spec

LEMMA OneActiveCounted == ASSUME OneActive PROVE OneActiveShare
<1> DEFINE A == {h \in Shares : Active(h)}
<1> SUFFICES ASSUME ~raced PROVE Cardinality(A) <= 1
  BY DEF OneActiveShare
<1>1. CASE A = {}
  BY <1>1, FS_EmptySet
<1>2. ASSUME NEW h \in A PROVE Cardinality(A) <= 1
  <2>1. A = {h}
    BY DEF OneActive
  <2> QED BY <2>1, FS_Singleton
<1> QED BY <1>1, <1>2

\* share, setSensitivity and remindExpiringSensitiveShares: a recipient has one
\* active share and none of a document that is not sensitive, unless two shares, or
\* a share and a marking, overlapped or an unmarking stopped half-way (raced); and
\* is reminded once, whatever overlaps.
THEOREM SharesAlwaysSound == Spec => []SharesSound
<1>1. NamedInv /\ ReminderInv => SharesSound
  <2>1. ReminderInv => RemindedOnce
    BY DEF ReminderInv, RemindedOnce
  <2> QED BY <2>1, OneActiveCounted DEF NamedInv, SharesSound
<1> QED BY Typed, NamedInit, NamedNext, ReminderInit, ReminderNext, <1>1, PTL DEF Spec

\* A step writes over no decision, changes an ended request only when its writer
\* had read it open, and takes no download through a revoked link.
LEMMA EndingsStep ==
  ASSUME Types, SignatureInv, [Next]_vars
  PROVE  DecisionFinal /\ EndedStays /\ RevokedTakesNone
<1> USE DEF signing, linking, naming
<1>1. DecisionFinal
  <2>1. ASSUME NEW s \in Slots, CommitDecision(s) PROVE DecisionFinal
    <3>1. entries[req[s].signer] = "PENDING"
      BY <2>1 DEF CommitDecision, SignatureInv, EntryLocked
    <3> QED BY <2>1, <3>1 DEF CommitDecision, DecisionFinal, Types, TypeOK
  <2>2. ASSUME entries' = entries PROVE DecisionFinal
    BY <2>2 DEF DecisionFinal
  <2>3. SignatureActions => entries' = entries \/ \E s \in Slots : CommitDecision(s)
    BY DEF SignatureActions, RequestSignatures, ReadEntry, CountRemaining, ReadCancel,
       WriteCancel
  <2> QED BY <2>1, <2>2, <2>3, Groups, LinkFrame, ShareFrame, ReminderFrame, MarkFrame,
         ReaderFrame, OtherFrame DEF vars
<1>2. EndedStays
  <2>1. ASSUME NEW s \in Slots, CommitDecision(s) \/ WriteCancel(s) PROVE EndedStays
    BY <2>1 DEF CommitDecision, WriteCancel, SignatureInv, WritersKnow, EndedStays, At
  <2>2. ASSUME request' = request PROVE EndedStays
    BY <2>2 DEF EndedStays
  <2>3. SignatureActions => \/ request' = request \/ request = "none"
                            \/ \E s \in Slots : CommitDecision(s) \/ WriteCancel(s)
    BY DEF SignatureActions, RequestSignatures, ReadEntry, CountRemaining, ReadCancel
  <2>4. request = "none" => EndedStays
    BY DEF EndedStays
  <2> QED BY <2>1, <2>2, <2>3, <2>4, Groups, LinkFrame, ShareFrame, ReminderFrame, MarkFrame,
         ReaderFrame, OtherFrame DEF vars
<1>3. RevokedTakesNone
  <2>1. ASSUME NEW s \in Slots, Consume(s) PROVE RevokedTakesNone
    BY <2>1 DEF Consume, Consumable, RevokedTakesNone
  <2>2. ASSUME served' = served PROVE RevokedTakesNone
    BY <2>2 DEF RevokedTakesNone
  <2>3. LinkActions => served' = served \/ \E s \in Slots : Consume(s)
    BY DEF LinkActions, Revoke, LinkExpires, SaveSharing, CheckShare, CloseLinks, CreateLink,
       OpenLink
  <2> QED BY <2>1, <2>2, <2>3, Groups, SignatureFrame, ShareFrame, ReminderFrame, MarkFrame,
         ReaderFrame, OtherFrame DEF vars
<1> QED BY <1>1, <1>2, <1>3

\* decide, cancel and download: a signer's decision is never changed and a revoked
\* link takes no download, whatever overlaps; an ended signature request keeps its
\* status unless a decision or a cancellation that had read it OPEN is written
\* over it, which the code allows (raced).
THEOREM EndingsAreFinal == Spec => EndingsFinal
<1>1. Types /\ SignatureInv /\ [Next]_vars
        => [DecisionFinal /\ EndedStays /\ RevokedTakesNone]_vars
  BY EndingsStep
<1> QED BY Typed, SignatureInvariant, <1>1, PTL DEF Spec, EndingsFinal

=============================================================================
