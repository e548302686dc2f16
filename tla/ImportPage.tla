------------------------------ MODULE ImportPage ------------------------------
(***************************************************************************)
(* The page that imports accounts: accountImportPage() in the browser      *)
(* (src/static/ledger-pages.js).                                           *)
(*                                                                         *)
(* The operator chooses files, types, asks for the import, confirms in a   *)
(* dialog that counts the accounts, and waits for the job.  The bytes of   *)
(* a file and the previews made by the server arrive later, in any order.  *)
(***************************************************************************)
EXTENDS Integers, FiniteSets, Sequences

CONSTANTS
  Sources,     \* what is imported: files and typed texts
  Zips,        \* those that are ZIP archives
  MaxActions,  \* bound: choices, edits and submissions by the operator
  Nothing      \* no content, no preview

VARIABLES
  importInputFormat,  \* "json" or "zip"
  importContent,      \* the content to send
  text,               \* the source shown as JSON in the text area
  readOnly,           \* whether the text area shows an archive
  importPreview,      \* the source whose preview the page holds
  previewSequence,    \* number of the file chosen last
  loads,              \* files under way
  asked,              \* contents the submission has sent for a preview
  submitDisabled,     \* whether the button to submit is disabled
  dialog,             \* the source that the open dialog counts
  importSubmitting,   \* whether a job is submitted and watched
  submitted,          \* the imports submitted
  overtaken,          \* the operator went on before a file or its preview was there, or a submission answered
  actions

importVars == <<importInputFormat, importContent, text, readOnly, importPreview, previewSequence, loads, asked,
                submitDisabled, dialog, importSubmitting, submitted, overtaken, actions>>
view == <<dialog, importSubmitting, submitted>>

\* A content is a source as it is, or as the JSON that a preview made of it.
Content(source) == [of |-> source, form |-> IF source \in Zips THEN "zip" ELSE "json"]
AsJson(source) == [of |-> source, form |-> "json"]

Init ==
  /\ importInputFormat = "json" /\ importContent = Nothing
  /\ text = Nothing /\ readOnly = FALSE
  /\ importPreview = Nothing /\ previewSequence = 0
  /\ loads = {} /\ asked = {}
  /\ submitDisabled = FALSE
  /\ dialog = Nothing /\ importSubmitting = FALSE /\ submitted = {}
  /\ overtaken = FALSE /\ actions = 0

\* Faulty: every answer is shown.
Latest(load) == TRUE

Current(load) == load.sequence = previewSequence

\* Files that have not been read, and the file chosen last while it has no preview.
Unread == {load \in loads : load.body = Nothing}
Unseen == {load \in loads : Current(load)}

\* The dialog is modal: nothing else can be used while it is open.
Act(early) ==
  /\ dialog = Nothing /\ actions < MaxActions
  /\ actions' = actions + 1
  /\ overtaken' = (overtaken \/ asked # {} \/ early # {})

-----------------------------------------------------------------------------
(* Files and edits *)

\* loadFile()
ChooseFile(source) ==
  /\ Act(Unread)
  /\ previewSequence' = previewSequence + 1
  /\ importInputFormat' = Content(source).form
  /\ importPreview' = Nothing
  /\ loads' = loads \cup {[sequence |-> previewSequence + 1, of |-> source, body |-> Nothing]}
  /\ UNCHANGED <<importContent, text, readOnly, asked, submitDisabled, view>>

\* The bytes are there: they are shown and sent for a preview.
Bytes(load) ==
  /\ load.body = Nothing
  /\ importContent' = Content(load.of)
  /\ text' = IF load.of \in Zips THEN Nothing ELSE load.of
  /\ readOnly' = (load.of \in Zips)
  /\ submitDisabled' = TRUE
  /\ loads' = (loads \ {load}) \cup {[load EXCEPT !.body = [content |-> Content(load.of), format |-> importInputFormat]]}
  /\ UNCHANGED <<importInputFormat, importPreview, previewSequence, asked, view, overtaken, actions>>

\* The server reads a content in the form it is said to have, or refuses it.
Readable(body) == body.content # Nothing /\ body.content.form = body.format

\* An answer that a later file has overtaken changes nothing.
Preview(load, ok) ==
  /\ load.body # Nothing
  /\ ok => Readable(load.body)
  /\ loads' = loads \ {load}
  /\ IF ~Current(load) THEN UNCHANGED <<importContent, text, importPreview, submitDisabled>>
     ELSE /\ submitDisabled' = FALSE
          /\ IF ok THEN /\ importPreview' = load.of
                        /\ importContent' = IF load.of \in Zips THEN importContent ELSE AsJson(load.of)
                        /\ text' = load.of
                   ELSE /\ importPreview' = Nothing
                        /\ text' = IF load.of \in Zips THEN Nothing ELSE text
                        /\ UNCHANGED importContent
  /\ UNCHANGED <<importInputFormat, readOnly, previewSequence, asked, view, overtaken, actions>>

\* Faulty: the preview of what was there before the edit stays.
KeepsPreview == UNCHANGED importPreview

DropsPreview == importPreview' = Nothing

\* Typing makes the text the content; an archive cannot be edited. The text has no
\* number: the preview of the file chosen before replaces it when it arrives.
Type(source) ==
  /\ Act(Unread \cup Unseen) /\ ~readOnly /\ source \notin Zips
  /\ importInputFormat' = "json" /\ importContent' = AsJson(source) /\ text' = source
  /\ DropsPreview
  /\ UNCHANGED <<readOnly, previewSequence, loads, asked, submitDisabled, view>>

-----------------------------------------------------------------------------
(* Submission *)

\* What would be submitted.
Sent == IF importInputFormat = "zip" THEN importContent ELSE IF text = Nothing THEN Nothing ELSE AsJson(text)

\* openPlanTypeConfirmation() counts the accounts of the preview, else of the content.
OpenConfirmation == dialog' = importPreview'

\* Submitting asks for a preview unless the page holds one.
Submit ==
  /\ Act(Unread) /\ ~submitDisabled
  /\ IF importPreview = Nothing
     THEN asked' = asked \cup {[content |-> Sent, format |-> importInputFormat]} /\ UNCHANGED <<importPreview, dialog>>
     ELSE UNCHANGED <<asked, importPreview>> /\ OpenConfirmation
  /\ UNCHANGED <<importInputFormat, importContent, text, readOnly, previewSequence, loads,
                 submitDisabled, importSubmitting, submitted>>

\* The preview asked for replaces the content, and the dialog opens.
Previewed(body, ok) ==
  /\ ok => Readable(body)
  /\ asked' = asked \ {body}
  /\ IF ok THEN /\ importPreview' = body.content.of
                /\ importContent' = AsJson(body.content.of)
                /\ text' = body.content.of
                /\ OpenConfirmation
           ELSE UNCHANGED <<importPreview, importContent, text, dialog>>
  /\ UNCHANGED <<importInputFormat, readOnly, previewSequence, loads, submitDisabled,
                 importSubmitting, submitted, overtaken, actions>>

\* Faulty: a second confirmation submits again.
MaySubmit == TRUE

IsFree == ~importSubmitting

\* submitImport(), once at a time.
Confirm ==
  /\ dialog # Nothing /\ IsFree
  /\ submitted' = submitted \cup {[number |-> Cardinality(submitted) + 1, counted |-> dialog, sent |-> Sent,
                                   format |-> importInputFormat, overtaken |-> overtaken, beside |-> importSubmitting]}
  /\ dialog' = Nothing /\ importSubmitting' = TRUE /\ submitDisabled' = TRUE
  /\ UNCHANGED <<importInputFormat, importContent, text, readOnly, importPreview, previewSequence,
                 loads, asked, overtaken, actions>>

Cancel ==
  /\ dialog # Nothing /\ ~importSubmitting
  /\ dialog' = Nothing
  /\ UNCHANGED <<importInputFormat, importContent, text, readOnly, importPreview, previewSequence, loads, asked,
                 submitDisabled, importSubmitting, submitted, overtaken, actions>>

\* The job ends, or can no longer be watched.
JobEnds ==
  /\ importSubmitting
  /\ importSubmitting' = FALSE /\ submitDisabled' = FALSE
  /\ UNCHANGED <<importInputFormat, importContent, text, readOnly, importPreview, previewSequence, loads, asked,
                 dialog, submitted, overtaken, actions>>

Next ==
  \/ \E source \in Sources : ChooseFile(source) \/ Type(source)
  \/ \E load \in loads : Bytes(load) \/ \E ok \in BOOLEAN : Preview(load, ok)
  \/ Submit \/ \E body \in asked, ok \in BOOLEAN : Previewed(body, ok)
  \/ Confirm \/ Cancel \/ JobEnds

-----------------------------------------------------------------------------
(* Properties *)

\* What is imported and charged is what the dialog counted, however late and in
\* whatever order the previews of files arrive, as long as the operator waits for
\* the bytes of a file, for its preview before typing over it, and for the answer to
\* a submission.
ImportsWhatWasConfirmed ==
  \A import \in submitted :
    ~import.overtaken => import.sent # Nothing /\ import.sent.of = import.counted

\* One import at a time is submitted from the page.
OneImportAtATime == \A import \in submitted : ~import.beside

-----------------------------------------------------------------------------
(* The inductive invariant behind the properties *)

Forms == {"json", "zip"}
Contents == [of : Sources, form : Forms]
Bodies == [content : Contents, format : Forms]

TypeInv ==
  /\ importInputFormat \in Forms
  /\ importContent \in Contents \cup {Nothing}
  /\ text \in Sources \cup {Nothing}
  /\ importPreview \in Sources \cup {Nothing}
  /\ previewSequence \in Nat
  /\ loads \subseteq [sequence : Nat, of : Sources, body : Bodies \cup {Nothing}]
  /\ asked \subseteq [content : Contents \cup {Nothing}, format : Forms]
  /\ dialog \in Sources \cup {Nothing}
  /\ overtaken \in BOOLEAN

\* Files are numbered in the order in which they were chosen.
SequenceInv ==
  /\ \A load \in loads : load.sequence <= previewSequence
  /\ \A load, other \in loads : load.sequence = other.sequence => load = other

\* What would be submitted comes from the source.
Holds(source) == Sent # Nothing /\ Sent.of = source

\* While the operator waits, only the file chosen last may be unread; once it is read,
\* it is what would be submitted.
FileInv ==
  \A load \in loads :
    /\ load.body = Nothing =>
         Current(load) /\ importPreview = Nothing /\ dialog = Nothing /\ asked = {}
    /\ Current(load) =>
         /\ importInputFormat = Content(load.of).form
         /\ load.body # Nothing => Holds(load.of)

\* ... and so is what was previewed, counted, or sent for a preview.
SourceInv ==
  /\ importPreview # Nothing => Holds(importPreview)
  /\ dialog # Nothing => Holds(dialog)
  /\ \A body \in asked : body.content # Nothing => Holds(body.content.of)

ImportInv ==
  /\ TypeInv /\ SequenceInv
  /\ ~overtaken => FileInv /\ SourceInv
  /\ ImportsWhatWasConfirmed /\ OneImportAtATime
=============================================================================
