----------------------------- MODULE AuditWizard -----------------------------
(***************************************************************************)
(* The audit form of one property in one browser tab: prefilled from the   *)
(* facts, overlaid by the draft in the tab's storage, saved to it after    *)
(* edits and when the form goes, filled with photos that take time to      *)
(* compress, and submitted by a request that outlives the form.            *)
(***************************************************************************)
EXTENDS Naturals, FiniteSets

CONSTANTS
    Question,      \* fields of the form
    Choice,        \* nonempty values
    Blank,         \* the empty value
    Photo,         \* picture files
    MaxPhotos,     \* MAX_AUDIT_PHOTOS
    NoDraft,       \* nothing in the storage
    MaxAuditOps    \* bound: forms opened, edits, files picked or removed, loads, submissions

Values == [Question -> Choice \cup {Blank}]
Drafts == [values : Values, step : SUBSET Photo, room : SUBSET Photo]

ASSUME AuditAssumption ==
    /\ Blank \notin Choice /\ NoDraft \notin Drafts
    /\ MaxPhotos \in Nat \ {0} /\ MaxAuditOps \in Nat

VARIABLES
    loaded,    \* the facts the page holds: a value of each field
    form,      \* the form on the screen, or the last one; those after number
               \* "page" are of this page, "done" is the page's status
    draft,     \* what the storage holds
    adding,    \* photos being compressed
    posts,     \* submissions not answered yet
    auditOps,
    given,      \* history: the auditor's answers; Blank: none that counts
    unsaved,   \* history: the fields and photos of them that came after the last save
    kept,      \* history: photos of the auditor that count
    taken      \* history: the node took an audit when no form but its own was open,
               \* and none was opened since

auditVars == <<loaded, form, draft, adding, posts, auditOps, given, unsaved, kept, taken>>

Empty == [q \in Question |-> Blank]
Closed == [n |-> 0, page |-> 0, open |-> FALSE, values |-> Empty, step |-> {}, room |-> {},
           busy |-> FALSE, changed |-> FALSE, discard |-> FALSE, done |-> FALSE]

AuditInit ==
    /\ loaded \in Values
    /\ form = Closed
    /\ draft = NoDraft
    /\ adding = {} /\ posts = {}
    /\ auditOps = 0
    /\ given = Empty /\ unsaved = {} /\ kept = {} /\ taken = FALSE

AuditOp == auditOps < MaxAuditOps /\ auditOps' = auditOps + 1

\* Mutant: what is loaded goes over what was entered.
MergeDraftLoaded(base, over) == [q \in Question |-> IF base[q] # Blank THEN base[q] ELSE over[q]]

\* An empty value does not stand against a loaded one.
MergeDraft(base, over) == [q \in Question |-> IF over[q] # Blank THEN over[q] ELSE base[q]]

Shown == form.step \cup form.room
Compressing == {a.photo : a \in adding}
-----------------------------------------------------------------------------
(* Drafts. *)

Content == [values |-> form.values, step |-> form.step, room |-> form.room]

\* Mutant: a discarded form is saved like any other.
SavedDraftAlways == {Content} \cup IF Shown # {} THEN {draft} ELSE {}

\* persistDraft: no save of a discarded form; one with photos may exceed the quota.
SavedDraft ==
    IF form.discard THEN {draft}
    ELSE {Content} \cup IF Shown # {} THEN {draft} ELSE {}

\* The auditor's work that the storage does not hold is gone with the form.
Forget ==
    /\ given' = [q \in Question |-> IF q \in unsaved THEN Blank ELSE given[q]]
    /\ kept' = kept \ unsaved
    /\ unsaved' = {}

\* The mount: the draft over the facts.
OpenForm ==
    /\ AuditOp
    /\ ~form.open /\ ~form.done
    /\ form' = [Closed EXCEPT
         !.n = form.n + 1, !.page = form.page, !.open = TRUE, !.changed = TRUE,
         !.values = IF draft = NoDraft THEN loaded ELSE MergeDraft(loaded, draft.values),
         !.step = IF draft = NoDraft THEN {} ELSE draft.step,
         !.room = IF draft = NoDraft THEN {} ELSE draft.room]
    /\ taken' = FALSE
    /\ UNCHANGED <<loaded, draft, adding, posts, given, unsaved, kept>>

\* The page got the facts, perhaps again: every empty field is filled.
LoadFacts ==
    /\ AuditOp
    /\ \E new \in Values :
         /\ loaded' = new
         /\ form' = IF form.open THEN [form EXCEPT !.values = MergeDraft(new, @), !.changed = TRUE]
                    ELSE form
    /\ UNCHANGED <<draft, adding, posts, given, unsaved, kept, taken>>

\* The 400 ms after a change are over.
AutoSave ==
    /\ form.open /\ form.changed
    /\ draft' \in SavedDraft
    /\ form' = [form EXCEPT !.changed = FALSE]
    /\ unsaved' = IF draft' = Content THEN {} ELSE unsaved
    /\ UNCHANGED <<loaded, adding, posts, auditOps, given, kept, taken>>

\* The form goes: another tab of the page, another page, other facts on their way.
LeaveForm ==
    /\ form.open
    /\ draft' \in SavedDraft
    /\ form' = [Closed EXCEPT !.n = form.n, !.page = form.page, !.done = form.done]
    /\ IF draft' = Content
       THEN unsaved' = {} /\ UNCHANGED <<given, kept>>
       ELSE Forget
    /\ UNCHANGED <<loaded, adding, posts, auditOps, taken>>

\* The document goes: nothing is saved, and nobody waits for the answers.
ReloadPage ==
    /\ AuditOp
    /\ form' = [Closed EXCEPT !.n = form.n, !.page = form.n]
    /\ adding' = {} /\ posts' = {}
    /\ Forget
    /\ UNCHANGED <<loaded, draft, taken>>

CancelAudit ==
    /\ form.open /\ ~form.discard
    /\ form' = [form EXCEPT !.discard = TRUE]
    /\ draft' = NoDraft
    /\ given' = Empty /\ unsaved' = {} /\ kept' = {}
    /\ UNCHANGED <<loaded, adding, posts, auditOps, taken>>
-----------------------------------------------------------------------------
(* Answers and photos. *)

EditField(q, a) ==
    /\ AuditOp
    /\ form.open
    /\ form' = [form EXCEPT !.values[q] = a, !.changed = TRUE]
    /\ IF form.discard THEN UNCHANGED <<given, unsaved>>
       ELSE given' = [given EXCEPT ![q] = a] /\ unsaved' = unsaved \cup {q}
    /\ UNCHANGED <<loaded, draft, adding, posts, kept, taken>>

\* A file is picked for a step or for a room, while the count is below the limit.
PickPhoto(p, kind) ==
    /\ AuditOp
    /\ form.open /\ p \notin Shown \cup Compressing
    /\ Cardinality(form.step) + Cardinality(form.room) < MaxPhotos
    /\ adding' = adding \cup {[n |-> form.n, kind |-> kind, photo |-> p,
                               base |-> IF kind = "step" THEN form.step ELSE form.room]}
    /\ UNCHANGED <<loaded, form, draft, posts, given, unsaved, kept, taken>>

\* Mutant: a step photo is added to those there were when it was picked.
StepWithStale(a) == IF Cardinality(a.base) < MaxPhotos THEN a.base \cup {a.photo} ELSE a.base

\* A step photo is added to those there are, within the limit.
StepWith(a) == IF Cardinality(form.step) < MaxPhotos THEN form.step \cup {a.photo} ELSE form.step

\* The photo is compressed: a step photo is added to what the form has by now,
\* a room photo to what it had when the file was picked.
AddPhoto(a) ==
    /\ a \in adding
    /\ adding' = adding \ {a}
    /\ IF ~(form.open /\ form.n = a.n) THEN UNCHANGED <<form, unsaved, kept>>
       ELSE LET step == IF a.kind = "step" THEN StepWith(a) ELSE form.step
                room == IF a.kind = "room" THEN a.base \cup {a.photo} ELSE form.room
                mine == {a.photo} \cap (step \cup room)
            IN /\ form' = [form EXCEPT !.step = step, !.room = room, !.changed = TRUE]
               /\ IF form.discard THEN UNCHANGED <<unsaved, kept>>
                  ELSE /\ kept' = (kept \cup mine)
                                    \ IF a.kind = "room" THEN form.room \ a.base ELSE {}
                       /\ unsaved' = unsaved \cup mine
    /\ UNCHANGED <<loaded, draft, posts, auditOps, given, taken>>

\* It cannot be compressed.
DropPhoto(a) ==
    /\ a \in adding
    /\ adding' = adding \ {a}
    /\ UNCHANGED <<loaded, form, draft, posts, auditOps, given, unsaved, kept, taken>>

RemovePhoto(p) ==
    /\ AuditOp
    /\ form.open /\ p \in Shown
    /\ form' = [form EXCEPT !.step = @ \ {p}, !.room = @ \ {p}, !.changed = TRUE]
    /\ kept' = kept \ {p}
    /\ UNCHANGED <<loaded, draft, adding, posts, given, unsaved, taken>>
-----------------------------------------------------------------------------
(* Submission. *)

\* Mutant: every photo is sent.
FlattenAll(step, room) == {step \cup room}

\* The step photos, then the room photos, within the limit.
Flatten(step, room) ==
    {step \cup r : r \in {r \in SUBSET room :
        LET free == MaxPhotos - Cardinality(step) IN
        Cardinality(r) = IF Cardinality(room) <= free THEN Cardinality(room) ELSE free}}

\* Every nonempty value is sent, entered or prefilled.
Submit ==
    /\ AuditOp
    /\ form.open /\ ~form.busy
    /\ form.values # Empty
    /\ form' = [form EXCEPT !.busy = TRUE]
    /\ \E photos \in Flatten(form.step, form.room) :
         posts' = posts \cup {[n |-> form.n, values |-> form.values, photos |-> photos]}
    /\ UNCHANGED <<loaded, draft, adding, given, unsaved, kept, taken>>

Own(p) == form.open /\ form.n = p.n

\* The node took it: the draft is discarded, and the page the form was on, if it is
\* still there, shows no form after this one.
Accepted(p) ==
    /\ p \in posts
    /\ posts' = posts \ {p}
    /\ form' = [form EXCEPT !.done = @ \/ p.n > form.page,
                            !.busy = @ /\ ~Own(p), !.discard = @ \/ Own(p)]
    /\ draft' = NoDraft
    /\ given' = Empty /\ unsaved' = {} /\ kept' = {}
    /\ taken' = (taken \/ ~form.open \/ Own(p))
    /\ UNCHANGED <<loaded, adding, auditOps>>

\* The node refused it: the auditor may submit again.
Refused(p) ==
    /\ p \in posts
    /\ posts' = posts \ {p}
    /\ form' = [form EXCEPT !.busy = @ /\ ~Own(p)]
    /\ UNCHANGED <<loaded, draft, adding, auditOps, given, unsaved, kept, taken>>

\* No answer: nothing catches the error, so the button stays as it is.
PostFails(p) ==
    /\ p \in posts
    /\ posts' = posts \ {p}
    /\ UNCHANGED <<loaded, form, draft, adding, auditOps, given, unsaved, kept, taken>>

\* The page is left and opened anew: what its forms still wait for, photos and
\* answers, goes on without it.
OpenPage ==
    /\ AuditOp
    /\ ~form.open /\ form.page < form.n
    /\ form' = [form EXCEPT !.page = form.n, !.done = FALSE]
    /\ UNCHANGED <<loaded, draft, adding, posts, given, unsaved, kept, taken>>

AuditNext ==
    \/ OpenForm \/ LoadFacts \/ AutoSave \/ LeaveForm \/ ReloadPage \/ CancelAudit
    \/ \E q \in Question, a \in Choice \cup {Blank} : EditField(q, a)
    \/ \E p \in Photo : RemovePhoto(p) \/ \E kind \in {"step", "room"} : PickPhoto(p, kind)
    \/ \E a \in adding : AddPhoto(a) \/ DropPhoto(a)
    \/ Submit \/ OpenPage
    \/ \E p \in posts : Accepted(p) \/ Refused(p) \/ PostFails(p)

AuditSpec == AuditInit /\ [][AuditNext]_auditVars
-----------------------------------------------------------------------------
(* Properties. *)

\* The types of the variables; whatever photos overlapping picks bring to the
\* form, no submission carries more than the limit.
WizardTypeOK ==
    /\ loaded \in Values /\ given \in Values
    /\ [values |-> form.values, step |-> form.step, room |-> form.room] \in Drafts
    /\ draft # NoDraft => draft \in Drafts
    /\ form.n \in Nat /\ form.page \in 0..form.n /\ auditOps \in Nat
    /\ \A s \in {"open", "busy", "changed", "discard", "done"} : form[s] \in BOOLEAN
    /\ \A a \in adding : a.photo \in Photo /\ a.base \subseteq Photo
    /\ \A p \in posts : Cardinality(p.photos) <= MaxPhotos
    /\ unsaved \subseteq Question \cup Photo /\ kept \subseteq Photo /\ taken \in BOOLEAN

\* An answer the auditor gave last for a field stands in the form, and in the
\* draft while there is none, until the audit is cancelled or submitted: facts
\* that arrive late do not replace it, nor does the form that opens next.  Lost
\* are only answers that no save came after, and those the auditor emptied.
AnswersAreKept ==
    \A q \in Question : given[q] # Blank =>
        IF form.open THEN form.values[q] = given[q]
        ELSE draft # NoDraft /\ draft.values[q] = given[q]

\* A photo that came to the form stays, unless the auditor removes it or a room
\* photo is added that was picked before it came.
PhotosAreKept ==
    kept \subseteq IF form.open THEN Shown
                   ELSE IF draft = NoDraft THEN {} ELSE draft.step \cup draft.room

\* Once the node took an audit and its form is gone, no draft of it is left to
\* be submitted again, whether the page is still there or not, until a form opens
\* again; unless the answer met another form than the one it is for: that one
\* saves its copy when it goes.
DraftGoneAfterSubmit == taken /\ ~form.open => draft = NoDraft
=============================================================================
