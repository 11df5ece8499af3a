----------------------------- MODULE EditSession -----------------------------
(***************************************************************************)
(* `configu upsert` (cli upsert.ts): flags become the input of an          *)
(* UpsertCommand and, with --edit or with no input at all, an editing      *)
(* session.  The session previews the upsert, writes what it would store   *)
(* to a temporary file, waits for the editor to close and upserts what the *)
(* file then says: every line of it, edited or not.  A value is written as *)
(* YAML of what JSON makes of it, and comes back another text or none:     *)
(* "1.0" as "1", "null" as no value.  Minutes may pass between the preview *)
(* and the upsert, and other programs go on writing.                       *)
(***************************************************************************)
EXTENDS UpsertCommand

CONSTANTS
    Flags,       \* command lines
    Edited,      \* what a user may make the file say
    Retyped      \* what a value is once it has been through the file unedited

VARIABLES
    flags,      \* flags[c]: the command line of c
    stage,      \* stage[c]: what c's UpsertCommand is for
    shown,      \* shown[c]: what the temporary file says as it is opened
    text,       \* text[c]: what it says as it is closed
    moved,      \* history: what others wrote between c's preview and its write
    overlooked  \* history: keys whose read failed unnoticed in the preview

session == <<flags, stage, shown, text, moved, overlooked>>

sessionVars == <<vars, session>>

Nothing == [k \in {} |-> Empty]

(* Partial functions from keys to contents: what a file may say. *)
Text == Answers

(* The Cfgu of a config that --from-file brings: null. *)
NullCfgu == [lazy |-> FALSE, const |-> Empty, default |-> Empty, required |-> FALSE,
             hidden |-> FALSE, accepts |-> Content, depends |-> {}]

IsFlags(f) ==
    /\ DOMAIN f = {"schema", "set", "pipe", "files", "literal", "edit", "prune", "preview", "ci"}
    /\ IsSchema(f.schema)
    /\ f.set \in Set
    /\ DOMAIN f.pipe \subseteq Key
    /\ \A k \in DOMAIN f.pipe : f.pipe[k] \in Piped
    /\ f.files \in Text /\ f.literal \in Text
    /\ {f.edit, f.prune, f.preview, f.ci} \subseteq BOOLEAN

ASSUME EditAssumption ==
    /\ \A f \in Flags : IsFlags(f)
    /\ Edited \subseteq Text
    /\ Retyped \in [Content -> Content] /\ Retyped[Empty] = Empty

-----------------------------------------------------------------------------

(* handleFileInput, merged over what was piped. *)
PipeOf(f) ==
    [k \in DOMAIN f.pipe \cup DOMAIN f.files |->
        IF k \in DOMAIN f.files
        THEN [value |-> f.files[k], cfgu |-> NullCfgu, origin |-> "store"]
        ELSE f.pipe[k]]

(* hasInput; without any, outside CI, the command turns to the editor. *)
Edits(f) ==
    \/ f.edit
    \/ ~f.ci /\ ~f.prune /\ f.pipe = Nothing /\ f.files = Nothing /\ f.literal = Nothing

(* The --validate flag is not handed over, so every input is validated. *)
FromFlags(f, dry) ==
    [schema |-> f.schema, set |-> f.set, configs |-> f.literal, pipe |-> PipeOf(f),
     delete |-> f.prune, dry |-> dry, validate |-> TRUE]

Computed(f, k) == k \in DOMAIN f.schema /\ (f.schema[k].lazy \/ IsConst(f.schema[k]))

(* Mutant: an empty line is left out instead of standing for "no value". *)
WithoutBlankLines(f, lines) ==
    [k \in {j \in DOMAIN lines : ~Computed(f, j) /\ lines[j] # Empty} |-> lines[k]]

(* Mutant: a line that was deleted stands for "no value". *)
MissingAreEmpty(f, lines) ==
    [k \in {j \in DOMAIN lines \cup DOMAIN f.schema : ~Computed(f, j)} |->
        IF k \in DOMAIN lines THEN lines[k] ELSE Empty]

(* What handleEditorInput returns: the lines of const and lazy keys are    *)
(* dropped, all the others are configs, changed or not.  What a line says  *)
(* is what UpsertCommand makes of it: no value for null, and for anything  *)
(* but a string its JSON.                                                  *)
EditorConfigs(f, lines) == [k \in {j \in DOMAIN lines : ~Computed(f, j)} |-> lines[k]]

FromEditor(f, lines) ==
    [FromFlags(f, f.preview) EXCEPT !.configs = EditorConfigs(f, lines), !.pipe = Nothing]

(* The file as it is opened has a line for each key of the report, with a  *)
(* YAML node of ConfigValue.parse(value), or null: what the line says is   *)
(* not always the value.                                                   *)
Report(c) ==
    [k \in DOMAIN input[c].schema |->
        IF Computed(flags[c], k) THEN Empty ELSE Retyped[NextValue(input[c], k, prev[c][k])]]

-----------------------------------------------------------------------------

EditInit ==
    /\ Init
    /\ flags = [c \in Client |-> CHOOSE f \in Flags : TRUE]
    /\ stage = [c \in Client |-> "direct"]
    /\ shown = [c \in Client |-> Nothing]
    /\ text = [c \in Client |-> Nothing]
    /\ moved = [c \in Client |-> {}]
    /\ overlooked = [c \in Client |-> {}]

Over(c) ==
    \/ pc[c] \in {"idle", "failed"}
    \/ pc[c] = "done" /\ stage[c] \in {"direct", "apply"}

(* configu upsert ...: the command, or its dry run for the editor. *)
Run(c, f) ==
    /\ Over(c)
    /\ Begin(c, FromFlags(f, Edits(f) \/ f.preview))
    /\ flags' = [flags EXCEPT ![c] = f]
    /\ stage' = [stage EXCEPT ![c] = IF Edits(f) THEN "preview" ELSE "direct"]
    /\ shown' = [shown EXCEPT ![c] = Nothing]
    /\ text' = [text EXCEPT ![c] = Nothing]
    /\ moved' = [moved EXCEPT ![c] = {}]
    /\ overlooked' = [overlooked EXCEPT ![c] = {}]

(* The dry run has returned; the file is written and the editor opened. *)
OpenEditor(c) ==
    /\ stage[c] = "preview" /\ pc[c] = "done"
    /\ stage' = [stage EXCEPT ![c] = "editing"]
    /\ shown' = [shown EXCEPT ![c] = Report(c)]
    /\ UNCHANGED <<vars, flags, text, moved, overlooked>>

(* The editor is closed and the upsert proper begins. *)
CloseEditor(c, lines) ==
    /\ stage[c] = "editing" /\ pc[c] = "done"
    /\ Begin(c, FromEditor(flags[c], lines))
    /\ stage' = [stage EXCEPT ![c] = "apply"]
    /\ text' = [text EXCEPT ![c] = lines]
    /\ moved' = [moved EXCEPT ![c] = stale[c]]
    /\ overlooked' = [overlooked EXCEPT ![c] = misread[c]]
    /\ UNCHANGED <<flags, shown>>

(* The editor cannot be opened, or the file cannot be read or parsed. *)
EditorFails(c) ==
    /\ stage[c] = "editing" /\ pc[c] = "done"
    /\ pc' = [pc EXCEPT ![c] = "failed"]
    /\ UNCHANGED <<backend, input, prev, commands, faults, asked, stale, misread, session>>

(* Writes of others to what c is about to apply. *)
MovedBy(writer, D) ==
    [c \in Client |-> IF c # writer /\ stage[c] = "apply" THEN moved[c] \cup D ELSE moved[c]]

Writes(c, D) ==
    /\ ApplyPart(c, D)
    /\ moved' = MovedBy(c, D)
    /\ UNCHANGED <<flags, stage, shown, text, overlooked>>

WritesLate(W) ==
    /\ LandLate(W)
    /\ moved' = [c \in Client |-> IF stage[c] = "apply" THEN moved[c] \cup Written(W) ELSE moved[c]]
    /\ UNCHANGED <<flags, stage, shown, text, overlooked>>

(* The steps of the UpsertCommand in progress that write nothing. *)
Upserting(c) ==
    /\ \/ \E D \in SUBSET Key : ReadPrev(c, D) \/ ReadSwallowed(c, D)
       \/ ReadRejected(c)
       \/ SetNext(c)
       \/ Finish(c)
       \/ \E D \in SUBSET Query : SetRejected(c, D)
    /\ UNCHANGED session

EditNext ==
    \/ \E c \in Client :
        \/ \E f \in Flags : Run(c, f)
        \/ OpenEditor(c)
        \/ \E lines \in Edited : CloseEditor(c, lines)
        \/ EditorFails(c)
        \/ Upserting(c)
        \/ \E D \in SUBSET Query : Writes(c, D)
    \/ \E W \in SUBSET orphans : WritesLate(W)

EditSpec == EditInit /\ [][EditNext]_sessionVars

-----------------------------------------------------------------------------

(* "--edit" has the last word ("Input precedence"): when a session has     *)
(* returned, each key with a line in the file has the value of that line,  *)
(* none if the line was blank, whatever was piped, given or stored before, *)
(* unless somebody else wrote it since, or a read failed unnoticed.        *)
FileIsApplied ==
    \A c \in Client :
        stage[c] = "apply" /\ pc[c] = "done" /\ ~flags[c].preview =>
            \A k \in DOMAIN text[c] \cap DOMAIN flags[c].schema :
                LET q == <<flags[c].set, k>>
                IN  \/ Computed(flags[c], k)
                    \/ store[q] = text[c][k]
                    \/ q \in stale[c]
                    \/ k \in misread[c] /\ text[c][k] = Empty

(* The configs c's upsert stores in this step, and what it was asked for:  *)
(* a line that was edited, a flag, or --prune.                             *)
Stored(c) ==
    {q \in DOMAIN pending[c] \ DOMAIN pending'[c] :
        stage[c] = "apply" /\ pc[c] = "write" /\ store'[q] # store[q]}

Asked(c, k) ==
    \/ k \in DOMAIN text[c] /\ text[c][k] # shown[c][k]
    \/ k \in DOMAIN Given(FromFlags(flags[c], TRUE))
    \/ flags[c].prune

(* What the user left alone a session changes in one way only, the way of  *)
(* a value through the file, as long as nobody wrote it between the        *)
(* preview and the write and the preview could read it.                    *)
QuietSessionOnlyRetypes ==
    [][\A c \in Client : \A q \in Stored(c) :
        \/ Asked(c, q[2]) \/ q \in moved[c] \/ q[2] \in overlooked[c]
        \/ store'[q] = Retyped[store[q]]]_store

=============================================================================
