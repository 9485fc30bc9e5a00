--------------------------- MODULE DocumentSharing ---------------------------
(***************************************************************************)
(* What leaves one document: a signature request and its signers, an       *)
(* external share link with its anonymous downloads, the named shares of a *)
(* sensitive document with their reminders, and the file a reader is sent  *)
(* (ged-sign-share.controller.ts, sensitive-sharing.ts, setSensitivity and *)
(* deliver of controllers.ts, prepareForPublication of                     *)
(* watermark.service.ts, saveSharing of ged-admin.controller.ts).          *)
(*                                                                         *)
(* Requests overlap.  What a request read before an await is kept in its   *)
(* slot; a transaction is a step that reads (READ COMMITTED, so it does    *)
(* not see the others that are open) and a step that commits.              *)
(*                                                                         *)
(* Signatures, links and named shares are rows of three tables, and no     *)
(* request writes two of them: a behaviour picks one of the three (part),  *)
(* together with the document they all read.                               *)
(***************************************************************************)
EXTENDS Integers, FiniteSets

CONSTANTS
  Signers,   \* asked to sign
  Shares,    \* ids of named shares, all for one recipient (bounds their number)
  Limits,    \* values of maxDownloads, None for no limit
  Slots,     \* requests served at the same time
  None

ASSUME SharingAssumption ==
  /\ IsFiniteSet(Signers) /\ Signers # {} /\ None \notin Signers
  /\ Limits \subseteq Nat \cup {None}

VARIABLES
  part,      \* "signatures", "links" or "shares"
  doc,       \* the document: published, sensitive, its latest version
  enabled,   \* the ged.externalSharing setting
  request,   \* status of the SignatureRequest
  entries,   \* status of each SignatureEntry
  link,      \* the ShareLink
  shares,    \* the SensitiveShare rows
  req,       \* the request served in each slot
  served,    \* downloads sent through the link (history)
  mails,     \* reminders sent for each share (history)
  raced      \* a row was written from a copy that had changed (history)

vars == <<part, doc, enabled, request, entries, link, shares, req, served, mails, raced>>
signing == <<request, entries>>
linking == <<enabled, link, served>>
naming == <<shares, mails>>

Statuses == {"none", "OPEN", "COMPLETED", "DECLINED", "CANCELLED"}
Decisions == {"SIGNED", "DECLINED"}
NoLink == [there |-> FALSE, revoked |-> FALSE, expired |-> FALSE, max |-> None, count |-> 0]
NoShare == [state |-> "none", ends |-> "never", reminded |-> FALSE]
Idle == [step |-> "idle", signer |-> None, what |-> None, seen |-> 0, held |-> {},
         overlap |-> FALSE]

At(s, step) == req[s].step = step
InFlight(s) == ~At(s, "idle")
Goto(s, r) == req' = [req EXCEPT ![s] = r]
\* s moves to r, and the requests at one of the steps learn that what they
\* read has changed.
Touch(s, r, steps) ==
  req' = [t \in Slots |-> IF t = s THEN r
                          ELSE IF req[t].step \in steps
                          THEN [req[t] EXCEPT !.overlap = TRUE] ELSE req[t]]

Init ==
  /\ part \in {"signatures", "links", "shares"}
  /\ doc = [published |-> TRUE, sensitive |-> FALSE, clean |-> TRUE, marked |-> FALSE]
  /\ enabled = FALSE
  /\ request = "none"
  /\ entries = [g \in Signers |-> "PENDING"]
  /\ link = NoLink
  /\ shares = [h \in Shares |-> NoShare]
  /\ req = [s \in Slots |-> Idle]
  /\ served = 0 /\ mails = [h \in Shares |-> 0] /\ raced = FALSE

-----------------------------------------------------------------------------
(* Signatures *)

\* requestSignatures: the request and its entries, in one transaction.
RequestSignatures ==
  /\ part = "signatures" /\ request = "none" /\ doc.clean
  /\ request' = "OPEN"
  /\ UNCHANGED <<part, doc, entries, linking, naming, req, raced>>

\* Fault: the status of the request is not looked at.
Decidable_AnyStatus(g) == request # "none" /\ entries[g] = "PENDING" /\ doc.clean

\* decide, its reads: an open request, the caller's own pending entry, a clean version.
Decidable(g) == request = "OPEN" /\ entries[g] = "PENDING" /\ doc.clean

ReadEntry(s, g, d) ==
  /\ At(s, "idle") /\ part = "signatures" /\ Decidable(g)
  /\ Goto(s, [Idle EXCEPT !.step = "decide", !.signer = g, !.what = d])
  /\ UNCHANGED <<part, doc, signing, linking, naming, raced>>

\* Fault: the entry is updated by its id alone.
Undecided_ById(g) == TRUE

\* The transaction updates the entry where it is still pending (a second
\* request of the same signer waits for the first and then finds none) ...
Undecided(g) == entries[g] = "PENDING"

\* Fault: the entries are counted before the update.
Remaining_Before(g) == {h \in Signers : entries[h] = "PENDING"}

\* ... and counts what remains: its own entry is decided, those of
\* transactions that have not committed are not.
Remaining(g) == {h \in Signers \ {g} : entries[h] = "PENDING"}

\* Fault: a refusal only counts as an answer.
Outcome_NotDeclined(g, d) == IF Remaining(g) = {} THEN "COMPLETED" ELSE "OPEN"

\* The request's new status; OPEN leaves the row alone.
Outcome(g, d) == IF d = "DECLINED" THEN "DECLINED"
                 ELSE IF Remaining(g) = {} THEN "COMPLETED" ELSE "OPEN"

CountRemaining(s) ==
  LET g == req[s].signer IN
  /\ At(s, "decide")
  /\ ~ \E t \in Slots \ {s} : At(t, "counted") /\ req[t].signer = g
  /\ IF Undecided(g)
     THEN Goto(s, [req[s] EXCEPT !.step = "counted", !.held = {Outcome(g, req[s].what)}])
     ELSE Goto(s, Idle)
  /\ UNCHANGED <<part, doc, signing, linking, naming, raced>>

CommitDecision(s) ==
  LET status == CHOOSE x \in req[s].held : TRUE IN
  /\ At(s, "counted")
  /\ entries' = [entries EXCEPT ![req[s].signer] = req[s].what]
  /\ request' = IF status = "OPEN" THEN request ELSE status
  /\ Touch(s, Idle, {"counted"} \cup (IF request' = request THEN {} ELSE {"decide", "cancel"}))
  /\ raced' = (raced \/ req[s].overlap)
  /\ UNCHANGED <<part, doc, linking, naming>>

\* cancel, by the requester or an administrator: the update names the id only.
ReadCancel(s) ==
  /\ At(s, "idle") /\ part = "signatures" /\ request = "OPEN"
  /\ Goto(s, [Idle EXCEPT !.step = "cancel"])
  /\ UNCHANGED <<part, doc, signing, linking, naming, raced>>

WriteCancel(s) ==
  /\ At(s, "cancel")
  /\ request' = "CANCELLED"
  /\ Touch(s, Idle, {"decide", "counted", "cancel"})
  /\ raced' = (raced \/ req[s].overlap)
  /\ UNCHANGED <<part, doc, entries, linking, naming>>

-----------------------------------------------------------------------------
(* External share links *)

\* Fault: disabling leaves the links as they are.
Closed_Kept(l) == l

\* saveSharing: the setting first, then every link when sharing is disabled.
Closed(l) == [l EXCEPT !.revoked = TRUE]

SaveSharing(s, on) ==
  /\ At(s, "idle") /\ part = "links"
  /\ enabled' = on
  /\ Touch(s, IF on THEN Idle ELSE [Idle EXCEPT !.step = "disabled"], {"linking", "disabled"})
  /\ UNCHANGED <<part, doc, link, served, signing, naming, raced>>

CloseLinks(s) ==
  /\ At(s, "disabled")
  /\ link' = IF link.there THEN Closed(link) ELSE link
  /\ Goto(s, Idle)
  /\ UNCHANGED <<part, doc, enabled, served, signing, naming, raced>>

\* share: everything is checked, then the link is created.
CheckShare(s, max) ==
  /\ At(s, "idle") /\ part = "links" /\ ~link.there
  /\ enabled /\ doc.published /\ ~doc.sensitive /\ doc.clean
  /\ Goto(s, [Idle EXCEPT !.step = "linking", !.held = {max}])
  /\ UNCHANGED <<part, doc, linking, signing, naming, raced>>

CreateLink(s) ==
  /\ At(s, "linking")
  /\ IF link.there THEN UNCHANGED <<link, raced>>  \* bound: one link
     ELSE /\ \E max \in req[s].held : link' = [NoLink EXCEPT !.there = TRUE, !.max = max]
          /\ raced' = (raced \/ req[s].overlap)
  /\ Goto(s, Idle)
  /\ UNCHANGED <<part, doc, enabled, served, signing, naming>>

\* revoke, conditional in one statement.
Revoke ==
  /\ part = "links" /\ link.there /\ ~link.revoked
  /\ link' = [link EXCEPT !.revoked = TRUE]
  /\ UNCHANGED <<part, doc, enabled, served, signing, naming, req, raced>>

\* Fault: a link outlives the marking of its document.
Valid_Sensitive == /\ enabled /\ link.there /\ ~link.revoked /\ ~link.expired
                   /\ doc.published /\ doc.clean

\* download, its reads.
Valid == /\ enabled /\ link.there /\ ~link.revoked /\ ~link.expired
         /\ doc.published /\ ~doc.sensitive /\ doc.clean

OpenLink(s) ==
  /\ At(s, "idle") /\ part = "links" /\ Valid
  /\ Goto(s, [Idle EXCEPT !.step = "consume", !.what = "original", !.seen = link.count])
  /\ UNCHANGED <<part, doc, linking, signing, naming, raced>>

\* Fault: the limit is compared with the count that was read.
Consumable_Seen(s) == ~link.revoked /\ (link.max = None \/ req[s].seen < link.max)

\* Fault: only the limit is part of the update.
Consumable_Revoked(s) == link.max = None \/ link.count < link.max

\* One conditional UPDATE takes the download.
Consumable(s) == ~link.revoked /\ (link.max = None \/ link.count < link.max)

\* Bound: only the downloads of a link with a limit are counted here.  The code
\* counts the others too, and reads that number nowhere but in the list of links.
Consume(s) ==
  /\ At(s, "consume")
  /\ IF Consumable(s)
     THEN /\ link' = IF link.max = None THEN link ELSE [link EXCEPT !.count = @ + 1]
          /\ served' = IF link.max = None THEN served ELSE served + 1
          /\ Goto(s, [req[s] EXCEPT !.step = "sending"])
     ELSE UNCHANGED <<link, served>> /\ Goto(s, Idle)
  /\ UNCHANGED <<part, doc, enabled, signing, naming, raced>>

-----------------------------------------------------------------------------
(* Named shares of a sensitive document *)

Active(h) == shares[h].state = "active"
HasSensitiveShare == \E h \in Shares : Active(h) /\ shares[h].ends # "past"
Revoked(held) == [h \in Shares |-> IF h \in held /\ Active(h)
                                   THEN [shares[h] EXCEPT !.state = "revoked"] ELSE shares[h]]

\* share: sharableDocument, later a transaction that revokes the previous
\* shares of the recipient it can see and creates the new one.
CheckNamedShare(s) ==
  /\ At(s, "idle") /\ part = "shares"
  /\ doc.published /\ doc.sensitive
  /\ Goto(s, [Idle EXCEPT !.step = "naming"])
  /\ UNCHANGED <<part, doc, linking, signing, naming, raced>>

\* Fault: only the shares that have expired are replaced.
Previous_Expired == {h \in Shares : Active(h) /\ shares[h].ends = "past"}

Previous == {h \in Shares : Active(h)}

ReplacePrevious(s) ==
  /\ At(s, "naming")
  /\ Goto(s, [req[s] EXCEPT !.step = "replacing", !.held = Previous])
  /\ UNCHANGED <<part, doc, linking, signing, naming, raced>>

CommitNamedShare(s, h, ends) ==
  /\ At(s, "replacing") /\ shares[h].state = "none"
  /\ shares' = [Revoked(req[s].held) EXCEPT ![h] = [NoShare EXCEPT !.state = "active",
                                                                   !.ends = ends]]
  /\ Touch(s, Idle, {"replacing", "stamp"})
  /\ raced' = (raced \/ req[s].overlap)
  /\ UNCHANGED <<part, doc, linking, signing, mails>>

\* revoke, of a depositor or of an administrator.
RevokeShare(h) ==
  /\ part = "shares" /\ Active(h)
  /\ shares' = Revoked({h})
  /\ UNCHANGED <<part, doc, linking, signing, mails, req, raced>>

\* remindExpiringSensitiveShares: the due rows are read, each is claimed, then mailed.
ReadDue(s, h) ==
  /\ At(s, "idle") /\ Active(h) /\ ~shares[h].reminded /\ shares[h].ends = "soon"
  /\ Goto(s, [Idle EXCEPT !.step = "due", !.held = {h}])
  /\ UNCHANGED <<part, doc, linking, signing, naming, raced>>

\* Fault: the claim is not conditional.
Claimable_ById(h) == TRUE

Claimable(h) == ~shares[h].reminded

Claim(s) ==
  /\ At(s, "due")
  /\ \E h \in req[s].held :
       IF Claimable(h)
       THEN /\ shares' = [shares EXCEPT ![h].reminded = TRUE]
            /\ Goto(s, [req[s] EXCEPT !.step = "claimed"])
       ELSE UNCHANGED shares /\ Goto(s, Idle)
  /\ UNCHANGED <<part, doc, linking, signing, mails, raced>>

\* sendSensitiveMail swallows its errors: the reminder is mailed or lost.
Remind(s, delivered) ==
  /\ At(s, "claimed")
  /\ \E h \in req[s].held :
       mails' = IF delivered THEN [mails EXCEPT ![h] = @ + 1] ELSE mails
  /\ Goto(s, Idle)
  /\ UNCHANGED <<part, doc, linking, signing, shares, raced>>

-----------------------------------------------------------------------------
(* The sensitivity flag, the watermarked copy and the file a reader is sent *)

\* setSensitivity: the document is read, a flag that is already so ends the request.
CheckSensitivity(s, on) ==
  /\ At(s, "idle") /\ part # "signatures" /\ doc.sensitive # on
  /\ Goto(s, [Idle EXCEPT !.step = "mark", !.what = on, !.seen = IF doc.published THEN 1 ELSE 0])
  /\ UNCHANGED <<part, doc, linking, signing, naming, raced>>

Readers == {"consume", "prepare", "sending", "linking"}

WriteSensitivity(s) ==
  LET on == req[s].what IN
  /\ At(s, "mark")
  /\ doc' = [doc EXCEPT !.sensitive = on]
  /\ Touch(s, IF ~on THEN [req[s] EXCEPT !.step = "unmarked"]
              ELSE IF req[s].seen = 1 THEN [req[s] EXCEPT !.step = "stamp"] ELSE Idle,
           Readers \cup {"mark", "stamp", "unmarked", "naming", "replacing"})
  /\ UNCHANGED <<part, linking, signing, naming, raced>>

\* prepareForPublication of the published document: nothing for one that is no
\* longer sensitive or whose latest version has its copy.
Stamped == [doc EXCEPT !.marked = @ \/ doc.sensitive]

Stamp(s) ==
  /\ At(s, "stamp")
  /\ doc' = Stamped
  /\ Goto(s, Idle)
  /\ UNCHANGED <<part, linking, signing, naming, raced>>

\* It fails (its first read, the storage, the antivirus, the format): the flag
\* the request read is put back, whatever others made of the document meanwhile.
StampFails(s) ==
  /\ At(s, "stamp")
  /\ doc' = [doc EXCEPT !.sensitive = FALSE]
  /\ Touch(s, Idle, {"mark", "stamp", "unmarked", "naming", "replacing"})
  /\ raced' = (raced \/ req[s].overlap)
  /\ UNCHANGED <<part, linking, signing, naming>>

\* Fault: only the shares that have expired are withdrawn.
Withdrawn_Expired == Revoked({h \in Shares : shares[h].ends = "past"})

\* The named shares of a document that is not sensitive any more.
Withdrawn == Revoked(Shares)

Withdraw(s) ==
  /\ At(s, "unmarked")
  /\ shares' = Withdrawn
  /\ Touch(s, Idle, {"naming", "replacing"})
  /\ UNCHANGED <<part, doc, linking, signing, mails, raced>>

\* deliver: a member of an authorized group (a manager, if the document is not
\* published), or with the preview permission the recipient of a named share.  A
\* sensitive document is sent in its watermarked copy only.
FileOf == IF ~doc.sensitive THEN "original" ELSE IF doc.marked THEN "copy" ELSE "none"

OpenDocument(s, shared) ==
  /\ At(s, "idle") /\ part = "shares"
  /\ doc.clean
  /\ shared => doc.published /\ doc.sensitive /\ HasSensitiveShare
  /\ Goto(s, [Idle EXCEPT !.step = IF FileOf = "none" THEN "prepare" ELSE "sending",
                          !.what = FileOf])
  /\ UNCHANGED <<part, doc, linking, signing, naming, raced>>

\* The copy is missing: prepareForPublication, which may fail, and a fresh read.
PrepareCopy(s, works) ==
  /\ At(s, "prepare")
  /\ doc' = IF works THEN Stamped ELSE doc
  /\ IF doc'.marked THEN Goto(s, [req[s] EXCEPT !.step = "sending", !.what = "copy"])
     ELSE Goto(s, Idle)
  /\ UNCHANGED <<part, linking, signing, naming, raced>>

Send(s) ==
  /\ At(s, "sending")
  /\ Goto(s, Idle)
  /\ UNCHANGED <<part, doc, linking, signing, naming, raced>>

-----------------------------------------------------------------------------
(* What happens to the document elsewhere, time, and crashes *)

\* publish, unpublish, trash and restore.
Publish ==
  /\ doc' = [doc EXCEPT !.published = ~@]
  /\ UNCHANGED <<part, linking, signing, naming, req, raced>>

\* upload, restoreVersion: a version without its watermarked copy becomes the latest.
NewVersion ==
  /\ part = "shares" /\ doc.marked
  /\ doc' = [doc EXCEPT !.marked = FALSE]
  /\ UNCHANGED <<part, linking, signing, naming, req, raced>>

\* Retention purges the file of the version (purgedAt).
VersionLost ==
  /\ doc.clean
  /\ doc' = [doc EXCEPT !.clean = FALSE]
  /\ UNCHANGED <<part, linking, signing, naming, req, raced>>

LinkExpires ==
  /\ link.there /\ ~link.expired
  /\ link' = [link EXCEPT !.expired = TRUE]
  /\ UNCHANGED <<part, doc, enabled, served, signing, naming, req, raced>>

ShareAges(h) ==
  /\ Active(h) /\ shares[h].ends \in {"later", "soon"}
  /\ shares' = [shares EXCEPT ![h].ends = IF @ = "later" THEN "soon" ELSE "past"]
  /\ UNCHANGED <<part, doc, linking, signing, mails, req, raced>>

\* The process stops, or the database refuses the next statement: an open
\* transaction is rolled back, what was written before stays.
Crash(s) ==
  /\ InFlight(s)
  /\ raced' = (raced \/ req[s].step \in {"disabled", "unmarked"})
  /\ Goto(s, Idle)
  /\ UNCHANGED <<part, doc, linking, signing, naming>>

Next ==
  \/ RequestSignatures \/ Revoke \/ Publish \/ NewVersion \/ VersionLost \/ LinkExpires
  \/ \E h \in Shares : RevokeShare(h) \/ ShareAges(h)
  \/ \E s \in Slots :
       \/ \E g \in Signers, d \in Decisions : ReadEntry(s, g, d)
       \/ CountRemaining(s) \/ CommitDecision(s) \/ ReadCancel(s) \/ WriteCancel(s)
       \/ \E on \in BOOLEAN : SaveSharing(s, on) \/ CheckSensitivity(s, on)
       \/ CloseLinks(s) \/ CreateLink(s) \/ OpenLink(s) \/ Consume(s)
       \/ \E max \in Limits : CheckShare(s, max)
       \/ CheckNamedShare(s) \/ ReplacePrevious(s)
       \/ \E h \in Shares, ends \in {"never", "later"} : CommitNamedShare(s, h, ends)
       \/ \E h \in Shares : ReadDue(s, h)
       \/ Claim(s)
       \/ \E ok \in BOOLEAN : Remind(s, ok) \/ PrepareCopy(s, ok) \/ OpenDocument(s, ok)
       \/ WriteSensitivity(s) \/ Stamp(s) \/ StampFails(s) \/ Withdraw(s)
       \/ Send(s) \/ Crash(s)

Spec == Init /\ [][Next]_vars

-----------------------------------------------------------------------------
(* Properties *)

\* The rows have the values of the schema: a request takes one of its four
\* statuses, an entry one of its three, and the counter of a link is a number.
TypeOK ==
  /\ part \in {"signatures", "links", "shares"}
  /\ doc \in [published : BOOLEAN, sensitive : BOOLEAN, clean : BOOLEAN, marked : BOOLEAN]
  /\ enabled \in BOOLEAN /\ raced \in BOOLEAN
  /\ request \in Statuses
  /\ entries \in [Signers -> {"PENDING"} \cup Decisions]
  /\ link \in [there : BOOLEAN, revoked : BOOLEAN, expired : BOOLEAN,
               max : Limits \cup {None}, count : Nat]
  /\ shares \in [Shares -> [state : {"none", "active", "revoked"},
                            ends : {"never", "later", "soon", "past"}, reminded : BOOLEAN]]
  /\ served \in Nat /\ mails \in [Shares -> Nat]
  /\ DOMAIN req = Slots

\* decide: a request is COMPLETED only when every signer signed, and one all of
\* whose signers signed does not stay OPEN, unless a decision or a cancellation
\* was written over one that was still under way.
CompletedIffSigned ==
  \/ raced
  \/ LET all == \A g \in Signers : entries[g] = "SIGNED" IN
       (request = "COMPLETED" => all) /\ (all => request \in {"COMPLETED", "CANCELLED"})

\* A signer who declined ends the request: it is never COMPLETED over a refusal,
\* and never left OPEN, under the same proviso.
RefusalEnds ==
  \/ raced
  \/ (\E g \in Signers : entries[g] = "DECLINED") => request = "DECLINED"

\* decide: a signer's decision, the evidence of which is hashed and stamped, is
\* written once, however many of his requests overlap and whatever the request becomes.
DecisionFinal ==
  \A g \in Signers : entries[g] # "PENDING" => entries'[g] = entries[g]

\* A request that has ended keeps its status unless a writer had read it open.
EndedStays ==
  request \notin {"none", "OPEN"} => raced' \/ request' = request

\* download: however many downloads overlap, no more are served than the limit allows.
DownloadsWithinLimit == link.max # None => served <= link.max

\* A link that is revoked, even between the checks of a download and its count,
\* takes no further download.
RevokedTakesNone == link.revoked => served' = served

\* saveSharing: once disabling is through, no link is left to come back when
\* sharing is enabled again, unless it was being created meanwhile or the
\* request stopped between its two statements.
DisabledClosesLinks ==
  enabled \/ raced \/ ~link.there \/ link.revoked \/ \E s \in Slots : At(s, "disabled")

\* share: a person has one active share of a document, so revoking the one that
\* is listed ends the access, unless two shares overlapped.
OneActiveShare == raced \/ Cardinality({h \in Shares : Active(h)}) <= 1

\* setSensitivity: no share stays active on a document that stopped being
\* sensitive, to be revived when it is marked again, unless the request is
\* still to withdraw them, stopped before, or overlapped a share or a marking.
NoShareOfPlain ==
  \/ raced \/ doc.sensitive
  \/ \A h \in Shares : ~Active(h)
  \/ \E s \in Slots : At(s, "unmarked")

\* A share's reminder is mailed at most once, with several workers and crashes.
RemindedOnce == \A h \in Shares : mails[h] <= 1

\* The original file of a document that is sensitive is on its way to a reader
\* or an anonymous downloader only if the marking overlapped that request.
NoPlainSensitive ==
  \A s \in Slots : At(s, "sending") /\ req[s].what = "original" /\ doc.sensitive
                     => req[s].overlap

\* The outcome of a signature request is that of its entries.
SignaturesSound == CompletedIffSigned /\ RefusalEnds

\* A link serves what its limit allows, without condition, and does not outlive
\* the switch but for one created while it was thrown or a request that stopped
\* between its two statements (DisabledClosesLinks).
LinksSound == DownloadsWithinLimit /\ DisabledClosesLinks

\* The named shares of a document are reminded of once, without condition, and
\* single and withdrawn with its mark, with the reservations of OneActiveShare
\* and NoShareOfPlain.
SharesSound == OneActiveShare /\ NoShareOfPlain /\ RemindedOnce

\* What has ended stays ended: a signer's decision and a revoked link without
\* condition, a signature request unless a decision or a cancellation that had
\* read it open was written over its end (EndedStays).
EndingsFinal == [][DecisionFinal /\ EndedStays /\ RevokedTakesNone]_vars
=============================================================================
