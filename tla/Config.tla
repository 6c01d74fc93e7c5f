------------------------------- MODULE Config -------------------------------
(***************************************************************************)
(* Layered configuration (core/config/config.go): Load merges the files    *)
(* base, envs/<environment>, services/<service> and local in that order    *)
(* and decodes the result over the defaults.                               *)
(*                                                                         *)
(* A document is a function from the paths of its leaves to the leaves, so *)
(* no path in its domain is a prefix of another; keys are strings already, *)
(* which is what normalizeMap brings about.  A section written without     *)
(* content is the leaf "null".                                             *)
(***************************************************************************)
EXTENDS Sequences, SequencesExt, TLC

\* The settings that the other modules depend on.
Components  == <<"runtime", "components">>
OtelEnabled == <<"modules", "otel", "enabled">>
Sections    == {<<"runtime">>, <<"modules">>, <<"modules", "otel">>}

\* One path is the other or leads to it.
Overlap(p, q) == IsPrefix(p, q) \/ IsPrefix(q, p)

\* Fault: a section replaces the section of the same name.
mergeMapShallow(dst, src) ==
    LET kept == {q \in DOMAIN dst : \A p \in DOMAIN src : p[1] # q[1]}
    IN  src @@ [q \in kept |-> dst[q]]

\* Maps are merged key by key; anything else replaces what was there, whole
\* sections and lists included.
mergeMap(dst, src) ==
    LET kept == {q \in DOMAIN dst : \A p \in DOMAIN src : ~ Overlap(p, q)}
    IN  [q \in kept \cup DOMAIN src |-> IF q \in DOMAIN src THEN src[q] ELSE dst[q]]

\* A file is missing, unreadable or broken ("bad"), or holds a document.
mergeFile(raw, file) == IF file.state = "ok" THEN mergeMap(raw, file.doc) ELSE raw

\* Decoding: a missing leaf, or null, leaves the zero value or the default.
decode(raw, path) == IF path \in DOMAIN raw THEN raw[path] ELSE "null"

\* The four files, each over the ones before it: the generated main names the
\* service and enables the local file.
merged(files) ==
    mergeFile(mergeFile(mergeFile(mergeFile(<< >>, files[1]), files[2]), files[3]), files[4])

\* Load: a missing file is skipped, a bad one or a section that is not a map is
\* an error.
Load(files) ==
    LET raw == merged(files)
    IN  [ok |-> /\ \A i \in DOMAIN files : files[i].state # "bad"
                /\ \A s \in Sections : decode(raw, s) = "null",
         components |-> decode(raw, Components),
         otel       |-> decode(raw, OtelEnabled) = "true"]
=============================================================================
