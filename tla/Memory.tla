---- MODULE Memory ----
(***************************************************************************)
(* Memory across runs (harness/memory.py): notes bound to the content of   *)
(* the documents they were derived from, while those documents change.     *)
(* A document's content is its version. A run reads documents into         *)
(* `loaded` (the `sources` it hands to recall and inject) and may be       *)
(* overtaken by a change; the notes are files, one per slug.               *)
(***************************************************************************)
EXTENDS Naturals, Sequences, FiniteSets, Functions

CONSTANTS
    Titles,     \* the names notes are written under
    Slug,       \* title -> file: slug() is not injective
    Refs,       \* documents
    MaxVersion, \* bound: changes of a document
    MaxWrites   \* bound: notes written

VARIABLES
    version,    \* ref -> version of the document now
    loaded,     \* ref -> version this run has read (a partial function)
    notes,      \* slug -> note, or a file that cannot be read (a partial function)
    used,       \* MemoryStore.used, as a set of slugs
    prompt      \* what the last step showed a model: {[note, slug, sources, strict, whole]}

memoryVars == <<version, loaded, notes, used, prompt>>

Corrupt == [title |-> "corrupt"]
Readable == {s \in DOMAIN notes : notes[s] # Corrupt}
Writes == FoldFunction(+, 0, [s \in Readable |-> notes[s].revisions])

MemoryInit ==
    /\ version = [r \in Refs |-> 0]
    /\ loaded = <<>> /\ notes = <<>> /\ used = {} /\ prompt = {}

Unshown == prompt' = {}

change_document(r) ==
    /\ version[r] < MaxVersion
    /\ version' = [version EXCEPT ![r] = @ + 1]
    /\ Unshown /\ UNCHANGED <<loaded, notes, used>>

read_document(r) ==
    /\ loaded' = [q \in DOMAIN loaded \cup {r} |-> IF q = r THEN version[r] ELSE loaded[q]]
    /\ Unshown /\ UNCHANGED <<version, notes, used>>

----------------------------------------------------------------------------
(* Writing. Each note is one file, written in place.                        *)

\* Mutant: every note goes to one file.
Put_together(s, note) ==
    notes' = [q \in {CHOOSE q \in Range(Slug) : TRUE} |-> note]

Put(s, note) == notes' = [q \in DOMAIN notes \cup {s} |-> IF q = s THEN note ELSE notes[q]]

\* write: derived from documents the run has read. A file that does not parse
\* makes `read` raise, so nothing can be written over it.
write(title, from) ==
    LET s == Slug[title]
        prior == IF s \in DOMAIN notes THEN notes[s].revisions ELSE 0
    IN  /\ s \in DOMAIN notes => s \in Readable
        /\ Writes < MaxWrites
        /\ Put(s, [title |-> title, revisions |-> prior + 1,
                   derived_from |-> {[ref |-> r, sha |-> loaded[r]] : r \in from}])
        /\ Unshown /\ UNCHANGED <<version, loaded, used>>

\* The process dies inside write_text, and with it the run.
write_interrupted(title) ==
    /\ Slug[title] \in DOMAIN notes => Slug[title] \in Readable
    /\ Writes < MaxWrites
    /\ Put(Slug[title], Corrupt)
    /\ loaded' = <<>> /\ used' = {} /\ Unshown
    /\ UNCHANGED version

forget(title) ==
    /\ Slug[title] \in DOMAIN notes
    /\ notes' = [s \in DOMAIN notes \ {Slug[title]} |-> notes[s]]
    /\ Unshown /\ UNCHANGED <<version, loaded, used>>

----------------------------------------------------------------------------
(* Reading.                                                                 *)

\* Mutant: one source that has not changed makes a note fresh.
freshness_of_any(note, sources) ==
    LET seen == {b \in note.derived_from : b.ref \in DOMAIN sources}
    IN  IF note.derived_from = {} THEN "unbound"
        ELSE IF seen = {} THEN "unverified"
        ELSE IF \E b \in seen : sources[b.ref] = b.sha THEN "fresh"
        ELSE "stale"

\* Note.freshness: documents that are not among the sources are passed over.
freshness(note, sources) ==
    LET seen == {b \in note.derived_from : b.ref \in DOMAIN sources}
    IN  IF note.derived_from = {} THEN "unbound"
        ELSE IF seen = {} THEN "unverified"
        ELSE IF \E b \in seen : sources[b.ref] # b.sha THEN "stale"
        ELSE "fresh"

\* Recalled.usable, which does not know of `strict`.
usable(note, sources) == freshness(note, sources) \in {"fresh", "unbound"}

\* recall: the notes that match the query and are not withheld.
recalled(hits, sources, include_unusable, strict) ==
    {s \in hits \cap Readable :
        LET f == freshness(notes[s], sources)
        IN  f = "fresh" \/ (f = "unbound" /\ ~strict) \/ include_unusable}

Show(hits, shown, strict, whole) ==
    /\ used' = used \cup {s \in hits : usable(notes[s], loaded)}
    /\ prompt' =
         {[note |-> notes[s], slug |-> s, sources |-> loaded, strict |-> strict,
           whole |-> whole] : s \in shown}
    /\ UNCHANGED <<version, loaded, notes>>

\* A caller of recall gets whole notes, at most `limit` of them.
recall(hits, chosen, strict) ==
    /\ chosen \subseteq recalled(hits, loaded, FALSE, strict)
    /\ Show(chosen, chosen, strict, TRUE)

\* inject: the usable notes, up to the budget; the withheld are only counted.
\* Notes the budget cuts off count as used.
inject(hits, shown, strict) ==
    LET all == recalled(hits, loaded, TRUE, strict)
    IN  /\ shown \subseteq {s \in all : usable(notes[s], loaded)}
        /\ Show(all, shown, strict, FALSE)

MemoryNext ==
    \/ \E r \in Refs : change_document(r) \/ read_document(r)
    \/ \E t \in Titles :
         \/ \E from \in SUBSET DOMAIN loaded : write(t, from)
         \/ write_interrupted(t)
         \/ forget(t)
    \/ \E hits \in SUBSET Readable, strict \in BOOLEAN : \E shown \in SUBSET hits :
         recall(hits, shown, strict) \/ inject(hits, shown, strict)

----------------------------------------------------------------------------
\* No model is shown a note whose source, as the run has read it, is not what
\* the note was derived from; nor one that has sources of which none was
\* checked. A strict caller of `recall` gets nothing without provenance.
\* (memory.py: "recall checks that hash against the source as it is now";
\* "`UNVERIFIED` abstains rather than guessing". `inject` passes `strict` on
\* but asks `usable`, so the last part holds of `recall` alone.)
StaleNeverShown ==
    \A p \in prompt :
        /\ \A b \in p.note.derived_from :
             b.ref \in DOMAIN p.sources => p.sources[b.ref] = b.sha
        /\ p.note.derived_from # {} => \E b \in p.note.derived_from : b.ref \in DOMAIN p.sources
        /\ p.strict /\ p.whole => p.note.derived_from # {}

\* Whatever a model was shown can be named afterwards: it is among `used`, and
\* its file was whole. (memory.py: "The audit trail has to be able to say which
\* remembered facts a decision leaned on".)
ShownIsTraced == \A p \in prompt : p.slug \in used /\ p.note # Corrupt

\* What memory shows a model is neither out of date nor beyond audit.
ShownIsSound == StaleNeverShown /\ ShownIsTraced
====
