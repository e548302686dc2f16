----------------------------- MODULE ConfigReload -----------------------------
(***************************************************************************)
(* How a process of the server follows the edits of its configuration      *)
(* (startConfigHotReload() of src/src/config.ts): a timer compares the     *)
(* times and sizes of the YAML and of the templates it names with those    *)
(* that it remembers, and loads all of them when they differ.  The files   *)
(* are edited by others at any time, also while they are read.             *)
(***************************************************************************)
EXTENDS Integers

CONSTANTS
  Yaml,        \* the file of the configuration
  Templates,   \* the files it may name
  MaxEdits     \* bound: edits

VARIABLES
  files,        \* of each file: its version, whether it is valid, and the template a YAML names
  config,       \* the configuration in use: the YAML and the template it was made of
  rules,        \* the failover rules of the runtime: those of a configuration
  fingerprint,  \* the files and versions when it was loaded
  reading,      \* what a load has read so far
  edits,        \* edits so far
  overtaken     \* whether a file was edited between its reading and its fingerprint

vars == <<files, config, rules, fingerprint, reading, edits, overtaken>>

Nothing == [file \in {} |-> 0]

\* main() has loaded the configuration, maybe some edits ago.
Init ==
  /\ \E template, next \in Templates :
       /\ config = [file \in {Yaml, template} |-> [version |-> 1, valid |-> TRUE, template |-> template]]
       /\ files \in [{Yaml} \cup Templates -> [version : 1 .. 2, valid : {TRUE}, template : {next}]]
       /\ files[Yaml].version = 1 => next = template
  /\ rules = config /\ fingerprint = {} /\ reading = Nothing
  /\ edits = 0 /\ overtaken = FALSE

\* Faulty: templates are not looked at.
WatchesTheYaml(candidate) == {Yaml}

Watched(candidate) == {Yaml, candidate[Yaml].template}

\* fingerprintFor()
FingerprintFor(candidate) == {<<file, files[file].version>> : file \in Watched(candidate)}

\* Faulty: what was read is used before all of it is found valid.
Anyhow(file) == TRUE

IsValid(file) == files[file].valid

\* The timer fires, and the files have changed.
Changed ==
  /\ reading = Nothing /\ FingerprintFor(config) # fingerprint
  /\ IF IsValid(Yaml) THEN reading' = [file \in {Yaml} |-> files[Yaml]] ELSE UNCHANGED reading
  /\ overtaken' = FALSE
  /\ UNCHANGED <<files, config, rules, fingerprint, edits>>

\* loadConfig() reads the template; what is not valid keeps the configuration in use.
LoadTemplate ==
  /\ DOMAIN reading = {Yaml}
  /\ LET template == reading[Yaml].template IN
     reading' = IF IsValid(template)
                THEN [file \in {Yaml, template} |-> IF file = Yaml THEN reading[Yaml] ELSE files[template]]
                ELSE Nothing
  /\ UNCHANGED <<files, config, rules, fingerprint, edits, overtaken>>

\* The configuration is used; the runtime is told of it.
Publish ==
  /\ DOMAIN reading \notin {{}, {Yaml}}
  /\ config' = reading
  /\ fingerprint' = FingerprintFor(reading)
  /\ rules' = reading
  /\ reading' = Nothing
  /\ UNCHANGED <<files, edits, overtaken>>

\* Somebody edits a file, which may break it.
Edit(file, valid, template) ==
  /\ edits < MaxEdits /\ edits' = edits + 1
  /\ file # Yaml => template = files[file].template
  /\ files' = [files EXCEPT ![file] = [version |-> @.version + 1, valid |-> valid, template |-> template]]
  /\ overtaken' = (overtaken \/ file \in DOMAIN reading)
  /\ UNCHANGED <<config, rules, fingerprint, reading>>

Next ==
  \/ Changed \/ LoadTemplate \/ Publish
  \/ \E file \in DOMAIN files, valid \in BOOLEAN, template \in Templates : Edit(file, valid, template)

-----------------------------------------------------------------------------
(* Properties *)

\* What is in use was valid as a whole.  And it is what the files say, or the timer will
\* find out, whichever file was edited, broken or named anew -- unless the edit came
\* after the file was read and before the fingerprint, which then hides it.
EditsAreNoticed ==
  /\ \A file \in DOMAIN config : config[file].valid
  /\ DOMAIN config = {Yaml, config[Yaml].template} /\ rules = config
  /\ reading = Nothing /\ ~ overtaken /\ (\E file \in DOMAIN config : config[file] # files[file]) =>
       FingerprintFor(config) # fingerprint

-----------------------------------------------------------------------------
(* The inductive invariant behind the properties *)

Values == [version : Nat, valid : BOOLEAN, template : Templates]

TypeInv ==
  /\ files \in [{Yaml} \cup Templates -> Values]
  /\ overtaken \in BOOLEAN

\* A configuration, whole: the YAML and the template it names.
IsWhole(candidate) ==
  \E template \in Templates :
    candidate \in [{Yaml, template} -> Values] /\ candidate[Yaml].template = template

\* What a load has read, and the files still say unless it was overtaken.
ReadingInv ==
  /\ reading = Nothing \/ reading \in [{Yaml} -> Values] \/ IsWhole(reading)
  /\ \A file \in DOMAIN reading : reading[file].valid /\ (~ overtaken => reading[file] = files[file])

\* The fingerprint is of the configuration in use and of an earlier time; where it is
\* of now, it hides nothing.
FingerprintInv ==
  fingerprint = {} \/
  \E seen \in [DOMAIN config -> Nat] :
    /\ fingerprint = {<<file, seen[file]>> : file \in DOMAIN config}
    /\ \A file \in DOMAIN config : seen[file] <= files[file].version
    /\ (\A file \in DOMAIN config : seen[file] = files[file].version) =>
         reading = Nothing /\ (overtaken \/ \A file \in DOMAIN config : config[file] = files[file])

ReloadInv ==
  /\ TypeInv /\ ReadingInv /\ FingerprintInv
  /\ IsWhole(config) /\ rules = config /\ \A file \in DOMAIN config : config[file].valid
=============================================================================
