---------------------------- MODULE KernelFilter ----------------------------
(***************************************************************************)
(* What the kernel programs do with one file (common/src/ebpf/kernel:      *)
(* path.rs, filtering.rs, helpers.rs; the hooks of argusd/ebpf and         *)
(* janusd/ebpf), against the keys user space puts into their maps          *)
(* (loader.rs).                                                            *)
(*                                                                         *)
(* A byte is a number: 0 is NUL, 1 is '/', the others are letters.  A file *)
(* is the names on its dentry chain, root first; a live dentry can always  *)
(* be read.  A buffer is a fixed array of bytes.  The sizes are constants, *)
(* 256, 20, 32, 128 and {128, 64, 32, 16, 8} in the code.                  *)
(***************************************************************************)
EXTENDS Naturals, Sequences, SequencesExt

CONSTANTS
    MAX_PATH_LEN,
    MAX_DEPTH,
    MAX_NAME,
    PREFIX_KEY_LEN,
    PrefixLens,      \* the lengths should_emit_event looks up
    Names,           \* the names of files
    Files,           \* the files that hooks see, each a sequence of names
    NoFile,          \* no hook has run
    Listed           \* the strings user space may put into the maps

VARIABLES
    enabled,         \* FILTER_ENABLED[0]
    prefixes,        \* keys of WATCHED_PREFIXES or GUARDED_PREFIXES
    deny_paths,      \* keys of DENY_PATHS
    buffer,          \* EVENT_SCRATCH: the path buffer of this CPU
    filled,          \* history: the file it was filled from
    verdict          \* history: what became of that file's access

maps == <<enabled, prefixes, deny_paths>>
scratch == <<buffer, filled, verdict>>
vars == <<enabled, prefixes, deny_paths, buffer, filled, verdict>>

NUL == 0
Slash == 1
Zeros(n) == [i \in 1..n |-> NUL]

Prefix(s, n) == SubSeq(s, 1, IF Len(s) < n THEN Len(s) ELSE n)

\* path_str: the bytes before the first NUL.
PathStr(buf) ==
    LET n == CHOOSE n \in 0..Len(buf) :
                 /\ \A i \in 1..n : buf[i] # NUL
                 /\ n < Len(buf) => buf[n + 1] = NUL
    IN SubSeq(buf, 1, n)

\* path_to_key: cut to the key's size, or filled up with NULs.
PathToKey(s, n) == [i \in 1..n |-> IF i <= Len(s) THEN s[i] ELSE NUL]

-----------------------------------------------------------------------------

\* One turn of the walk: the name, cut to MAX_NAME, and its slash go in front
\* of what the buffer's end holds; without room for both the walk is over.
WalkStep(w, name) ==
    LET n == Prefix(name, MAX_NAME)
        pos == w.pos - Len(n) - 1
    IN IF w.over \/ w.pos < Len(n) + 1 THEN [w EXCEPT !.over = TRUE]
       ELSE [w EXCEPT !.pos = pos,
                      !.out = [i \in DOMAIN @ |->
                                 IF i = pos + 1 THEN Slash
                                 ELSE IF i \in pos + 2 .. w.pos THEN n[i - pos - 1]
                                 ELSE @[i]]]

\* The walk from the file up: at most MAX_DEPTH dentries, not the root itself.
Walk(names, out) ==
    FoldLeft(WalkStep, [pos |-> MAX_PATH_LEN, out |-> out, over |-> FALSE],
             Prefix(Reverse(names), MAX_DEPTH))

ExtractUnterminated(names, out) ==
    LET w == Walk(names, out)
        len == MAX_PATH_LEN - w.pos
    IN IF len = 0 THEN [w.out EXCEPT ![1] = Slash, ![2] = NUL]
       ELSE [i \in 1..MAX_PATH_LEN |-> IF i <= len THEN w.out[w.pos + i] ELSE w.out[i]]

\* extract_path_from_dentry: the path moves to the front and is terminated.
\* What the walk wrote behind it stays.
ExtractPathFromDentry(names, out) ==
    LET w == Walk(names, out)
        len == MAX_PATH_LEN - w.pos
    IN IF len = 0 THEN [w.out EXCEPT ![1] = Slash, ![2] = NUL]
       ELSE [i \in 1..MAX_PATH_LEN |->
               IF i <= len THEN w.out[w.pos + i] ELSE IF i = len + 1 THEN NUL ELSE w.out[i]]

ShouldEmitStrictly(buf) ==
    \/ ~enabled
    \/ \E n \in PrefixLens :
          /\ n < Len(PathStr(buf))
          /\ PathToKey(SubSeq(buf, 1, n), PREFIX_KEY_LEN) \in prefixes

\* should_emit_event: the whole path is looked up at a few lengths only.
\* Nothing in the daemons fills IGNORED_PATHS.
ShouldEmitEvent(buf) ==
    \/ ~enabled
    \/ \E n \in PrefixLens :
          /\ n <= Len(PathStr(buf))
          /\ PathToKey(SubSeq(buf, 1, n), PREFIX_KEY_LEN) \in prefixes

\* submit_event_filtered: a path that could not be read is not filtered.
Emitted(buf) == buf[1] = NUL \/ ShouldEmitEvent(buf)

\* The deny list is looked up with the whole buffer.
Denied(buf) == buf[1] # NUL /\ buf \in deny_paths

-----------------------------------------------------------------------------

TypeOK ==
    /\ enabled \in BOOLEAN
    /\ prefixes \subseteq {PathToKey(s, PREFIX_KEY_LEN) : s \in Listed}
    /\ deny_paths \subseteq {PathToKey(s, MAX_PATH_LEN) : s \in Listed}
    /\ buffer \in [1..MAX_PATH_LEN -> {NUL, Slash} \cup UNION {Range(n) : n \in Names}]
    /\ filled \in Files \cup {NoFile}
    /\ verdict \in [emitted : BOOLEAN, denied : BOOLEAN]

Init ==
    /\ enabled = FALSE
    /\ prefixes = {}
    /\ deny_paths = {}
    /\ buffer = Zeros(MAX_PATH_LEN)
    /\ filled = NoFile
    /\ verdict = [emitted |-> FALSE, denied |-> FALSE]

\* set_filter_enabled(true), as ensure_ebpf_initialized calls it.
SetFilterEnabled ==
    /\ ~enabled
    /\ enabled' = TRUE
    /\ UNCHANGED <<prefixes, deny_paths>>
    /\ UNCHANGED scratch

AddWatchedPrefix(s) ==
    /\ prefixes' = prefixes \cup {PathToKey(s, PREFIX_KEY_LEN)}
    /\ UNCHANGED <<enabled, deny_paths>>
    /\ UNCHANGED scratch

RemoveWatchedPrefix(s) ==
    /\ PathToKey(s, PREFIX_KEY_LEN) \in prefixes
    /\ prefixes' = prefixes \ {PathToKey(s, PREFIX_KEY_LEN)}
    /\ UNCHANGED <<enabled, deny_paths>>
    /\ UNCHANGED scratch

AddDenyPath(s) ==
    /\ deny_paths' = deny_paths \cup {PathToKey(s, MAX_PATH_LEN)}
    /\ UNCHANGED <<enabled, prefixes>>
    /\ UNCHANGED scratch

RemoveDenyPath(s) ==
    /\ PathToKey(s, MAX_PATH_LEN) \in deny_paths
    /\ deny_paths' = deny_paths \ {PathToKey(s, MAX_PATH_LEN)}
    /\ UNCHANGED <<enabled, prefixes>>
    /\ UNCHANGED scratch

Fill(names, out) ==
    LET buf == ExtractPathFromDentry(names, out)
    IN /\ buffer' = buf
       /\ filled' = names
       /\ verdict' = [emitted |-> Emitted(buf), denied |-> Denied(buf)]
       /\ UNCHANGED maps

\* A hook of either daemon: the scratch buffer is zeroed and filled.
FileHook(names) == Fill(names, Zeros(MAX_PATH_LEN))

\* inode_rename, the destination: into the buffer that holds the source.
RenameDestination(names) ==
    /\ filled # NoFile
    /\ Fill(names, buffer)

Next ==
    \/ SetFilterEnabled
    \/ \E s \in Listed : AddWatchedPrefix(s) \/ RemoveWatchedPrefix(s)
                         \/ AddDenyPath(s) \/ RemoveDenyPath(s)
    \/ \E f \in Files : FileHook(f) \/ RenameDestination(f)

Spec == Init /\ [][Next]_vars
-----------------------------------------------------------------------------

\* The path of a file as a shell would print it.
FullPath(names) == FlattenSeq([i \in DOMAIN names |-> <<Slash>> \o names[i]])

\* The paths of the last k names, each cut to MAX_NAME.
LastNames(names, k) ==
    FullPath([i \in 1..k |-> Prefix(names[Len(names) - k + i], MAX_NAME)])

\* What user space reads out of an event is the path of the file it was made
\* for: as many of its last names as the depth and the buffer allow, "/" when
\* there is none, and nothing of a file that used the buffer before it
\* (extract_path_from_dentry, twice in inode_rename; path_str).
PathIsTheFiles ==
    filled # NoFile =>
      \E k \in 0..Len(filled) :
        /\ PathStr(buffer) = IF k = 0 THEN <<Slash>> ELSE LastNames(filled, k)
        /\ k < Len(filled) => \/ k = MAX_DEPTH
                            \/ Len(LastNames(filled, k + 1)) > MAX_PATH_LEN

\* With filtering on, a path is let through exactly when it begins with a
\* listed string of one of the lengths that are looked up, itself included; a
\* listed string longer than a key stands for its first bytes
\* (should_emit_event against add_watched_prefix).
FilterIsByLength ==
    filled # NoFile /\ enabled =>
      (ShouldEmitEvent(buffer) <=>
         \E s \in Listed :
            /\ PathToKey(s, PREFIX_KEY_LEN) \in prefixes
            /\ Len(Prefix(s, PREFIX_KEY_LEN)) \in PrefixLens
            /\ IsPrefix(Prefix(s, PREFIX_KEY_LEN), PathStr(buffer)))

\* "When a path matches DENY_PATHS, the LSM hook returns -EACCES, blocking the
\* file access at the kernel level" (loader.rs): a file whose path was given
\* to add_deny_path is refused.
DenyBlocks ==
    \A s \in Listed : filled # NoFile /\ PathToKey(s, MAX_PATH_LEN) \in deny_paths
                         /\ FullPath(filled) = s => Denied(buffer)
=============================================================================
