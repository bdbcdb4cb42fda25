---- MODULE ConfigFile ----
(***************************************************************************)
(* The configuration file (config_file.py): refused when it seems to carry *)
(* a credential, parsed by indentation otherwise. A file is the sequence   *)
(* of its lines that are not blank, each what it says without its comment. *)
(***************************************************************************)
EXTENDS Naturals, Sequences, FiniteSets, FiniteSetsExt, SequencesExt

CONSTANTS
    ConfigFiles,   \* sequences of [indent, key, value]: value is one of those below or a text
    NoValue, ListItem,
    NoColon,       \* what a line holds that is no list item and has no colon
    scalar(_),     \* what _scalar makes of a text
    Secrets,       \* the scalars of a known credential shape
    ReferenceKeys, \* the keys that must hold the name of a variable
    Literals       \* the scalars that are not the name of a variable

ASSUME ConfigAssumption ==
    /\ NoValue # ListItem /\ NoColon \notin {NoValue, ListItem}
    /\ \A file \in ConfigFiles :
         file \in Seq([indent : Nat, key : {file[i].key : i \in DOMAIN file},
                     value : {file[i].value : i \in DOMAIN file}])

VARIABLES
    source,        \* the file
    config         \* what became of it: [state, values: path -> scalar]

configVars == <<source, config>>

ConfigInit == source = <<>> /\ config = [state |-> "none", values |-> <<>>]

\* The pattern for a reference runs on over line ends: of a reference key without
\* a value it takes the next line for the value.
scan_for_secrets(file) ==
    \E i \in DOMAIN file :
        \/ file[i].value \in Secrets
        \/ /\ file[i].key \in ReferenceKeys
           /\ file[i].value \in Literals \/ (file[i].value = NoValue /\ i < Len(file))

\* Mutant: a map is never closed by a line indented less.
parse_without_dedent(file) ==
    LET upto[i \in 0..Len(file)] ==
          IF i = 0 THEN [open |-> <<>>, map |-> <<>>]
          ELSE LET s == upto[i-1]
                   path == Append(s.open, file[i].key)
               IN  IF file[i].value = ListItem THEN s
                   ELSE IF file[i].value = NoValue THEN [s EXCEPT !.open = path]
                   ELSE [s EXCEPT !.map = [p \in DOMAIN s.map \cup {path} |->
                                             IF p = path THEN file[i].value ELSE s.map[p]]]
    IN  upto[Len(file)].map

\* The open maps, innermost last, that a line indented so far leaves open.
still_open(open, indent) ==
    SubSeq(open, 1, Max({0} \cup {n \in DOMAIN open : open[n].indent < indent}))

without(map, path) == [p \in {q \in DOMAIN map : ~IsPrefix(path, q)} |-> map[p]]

\* A key without a value opens a map and empties an earlier one of its name; a list
\* item is added to nothing, for no key ever holds a list.
parse_line(s, line) ==
    LET open == still_open(s.open, line.indent)
        path == Append(IF open = <<>> THEN <<>> ELSE Last(open).path, line.key)
        rest == without(s.map, path)
    IN  IF line.value = ListItem THEN s
        ELSE IF line.value = NoValue
        THEN [open |-> Append(open, [indent |-> line.indent, path |-> path]), map |-> rest]
        ELSE [open |-> open,
              map |-> [p \in DOMAIN rest \cup {path} |->
                          IF p = path THEN line.value ELSE rest[p]]]

parse(file) ==
    LET upto[i \in 0..Len(file)] ==
          IF i = 0 THEN [open |-> <<>>, map |-> <<>>] ELSE parse_line(upto[i-1], file[i])
    IN  upto[Len(file)].map

cannot_parse(file) == \E i \in DOMAIN file : file[i].value = NoColon

load(file, allow_secrets) ==
    /\ config.state = "none"
    /\ source' = file
    /\ config' = IF (~allow_secrets /\ scan_for_secrets(file)) \/ cannot_parse(file)
                 THEN [state |-> "refused", values |-> <<>>]
                 ELSE LET map == parse(file)
                      IN  [state |-> "loaded", values |-> [p \in DOMAIN map |-> scalar(map[p])]]

load_missing ==
    /\ config.state = "none"
    /\ config' = [state |-> "refused", values |-> <<>>]
    /\ UNCHANGED source

ConfigNext == (\E f \in ConfigFiles, allow \in BOOLEAN : load(f, allow)) \/ load_missing

----------------------------------------------------------------------------
\* The line that opened the map a line stands in: the last key without a value
\* above it that is indented less, with nothing between at its level or above.
Encloses(file, m, i) ==
    /\ m < i /\ file[m].value = NoValue /\ file[m].indent < file[i].indent
    /\ \A k \in m+1..i-1 : file[k].value # ListItem => file[k].indent > file[m].indent
PathOf(file, i) ==
    LET Outer == {m \in DOMAIN file : Encloses(file, m, i)}
        Nth(n) == CHOOSE m \in Outer : Cardinality({k \in Outer : k <= m}) = n
    IN  [n \in 1..Cardinality(Outer) |-> file[Nth(n)].key] \o <<file[i].key>>

\* A loaded file means what its indentation says: what each text is read as stands at
\* the path of the keys that enclose it, the last line to write a path or to open one
\* of its prefixes decides, and nothing else is there; and each line is of a kind that
\* is understood. (config_file.py: "nested maps, scalars"; its "simple lists" are
\* dropped.)
FileMeansItsIndentation ==
    config.state = "loaded" =>
        LET lines == {i \in DOMAIN source : source[i].value # ListItem}
            Overwrites(j, i) == j > i /\ IsPrefix(PathOf(source, j), PathOf(source, i))
            kept == {i \in lines : source[i].value # NoValue /\ ~\E j \in lines : Overwrites(j, i)}
        IN  /\ DOMAIN config.values = {PathOf(source, i) : i \in kept}
            /\ \A i \in kept : config.values[PathOf(source, i)] = scalar(source[i].value)
            /\ \A i \in lines : source[i].value # NoColon
====
