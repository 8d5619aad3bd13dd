---------------------------- MODULE ManagedFrames ----------------------------
(***************************************************************************)
(* The frame cache of managed_frame_loader: one dict for the whole process *)
(* used by the threads of all sessions without a lock.                     *)
(*                                                                         *)
(* A session is one thread and makes one call at a time.  Operations of a  *)
(* dict are atomic, the statements between them are not.  Versions are     *)
(* files that anyone may write to; a change can leave size and             *)
(* modification time as they were.  Versions that only profiling may read  *)
(* (LARGE mode) are refused before the cache and left out, and so are      *)
(* parser options, which no page passes.                                   *)
(***************************************************************************)
EXTENDS Naturals, Sequences, FiniteSets

CONSTANTS
    Session,
    Version,
    None,
    MaxEntries,  \* _FRAME_CACHE_MAX_ENTRIES
    MaxWrites    \* bound: how often a version's file changes

ASSUME MaxEntriesAssumption == MaxEntries \in Nat \ {0}
ASSUME MaxWritesAssumption == MaxWrites \in Nat
ASSUME NoneAssumption == None \notin Version

VARIABLES
    root,      \* the version each session trusts, or None
    file,      \* each version's file: "own" bytes, "changed", or "disguised"
    writes,    \* how often a file has changed
    exposed,   \* history: versions whose file changed where no check could see it
    cache,     \* the dict in insertion order: entries with distinct keys
    pc,        \* where the call of each session is
    frame,     \* the frame each call has read, in an entry
    victim,    \* the key each call is about to pop
    returned   \* what the last call of each session under its root returned

callVars == <<pc, frame, victim>>
framesVars == <<root, file, writes, exposed, cache, pc, frame, victim, returned>>

-----------------------------------------------------------------------------
\* A seeded fault: the key lacks its session anchor.
KeyOfVersion(s, v) == <<None, v>>

\* CanonicalFrameKey: the capability of the session and the version.
Key(s, v) == <<s, v>>

\* A frame with its key, the session that read it, the version it was read for
\* and whether its bytes are that version's.
Entry(s, v, own) == [key |-> Key(s, v), by |-> s, of |-> v, own |-> own]

Cached(key) == \E i \in DOMAIN cache : cache[i].key = key

Position(key) == CHOOSE i \in DOMAIN cache : cache[i].key = key

Lookup(key) == cache[Position(key)]

Without(key) ==
    [i \in 1 .. Len(cache) - 1 |-> cache[IF i < Position(key) THEN i ELSE i + 1]]

\* cache[key] = value: an existing key keeps its place.
With(entry) ==
    IF Cached(entry.key)
      THEN [i \in DOMAIN cache |-> IF cache[i].key = entry.key THEN entry ELSE cache[i]]
      ELSE Append(cache, entry)

Go(s, place) == pc' = [pc EXCEPT ![s] = place]

FramesInit ==
    /\ root = [s \in Session |-> None]
    /\ file = [v \in Version |-> "own"]
    /\ writes = 0
    /\ exposed = {}
    /\ cache = <<>>
    /\ pc = [s \in Session |-> "idle"]
    /\ frame = [s \in Session |-> None]
    /\ victim = [s \in Session |-> None]
    /\ returned = [s \in Session |-> None]

-----------------------------------------------------------------------------
\* commit_trust_root, of a reopen, and retire_managed_trust: the hook empties the
\* cache, for all sessions.
Trust(s, v) ==
    /\ pc[s] = "idle"
    /\ root' = [root EXCEPT ![s] = v]
    /\ returned' = [returned EXCEPT ![s] = None]
    /\ cache' = <<>>
    /\ UNCHANGED <<file, writes, exposed, callVars>>

\* get_managed_frame up to the cache.
Hit(s) ==
    /\ pc[s] = "idle" /\ root[s] # None
    /\ Cached(Key(s, root[s]))
    /\ returned' = [returned EXCEPT ![s] = Lookup(Key(s, root[s]))]
    /\ UNCHANGED <<root, file, writes, exposed, cache, callVars>>

Miss(s) ==
    /\ pc[s] = "idle" /\ root[s] # None
    /\ ~Cached(Key(s, root[s]))
    /\ Go(s, "verify")
    /\ UNCHANGED <<root, file, writes, exposed, cache, frame, victim, returned>>

\* _revalidate_source looks at size and modification time only.
Verify(s) ==
    /\ pc[s] = "verify"
    /\ Go(s, IF file[root[s]] = "changed" THEN "idle" ELSE "read")
    /\ UNCHANGED <<root, file, writes, exposed, cache, frame, victim, returned>>

Read(s) ==
    /\ pc[s] = "read"
    /\ frame' = [frame EXCEPT ![s] = Entry(s, root[s], file[root[s]] = "own")]
    /\ Go(s, "bound")
    /\ UNCHANGED <<root, file, writes, exposed, cache, victim, returned>>

\* PARSE_FAILED.
ReadFails(s) ==
    /\ pc[s] = "read"
    /\ Go(s, "idle")
    /\ UNCHANGED <<root, file, writes, exposed, cache, frame, victim, returned>>

\* _bounded_store: while len(cache) >= max_entries,
Room(s) ==
    /\ pc[s] = "bound" /\ Len(cache) < MaxEntries
    /\ Go(s, "store")
    /\ UNCHANGED <<root, file, writes, exposed, cache, frame, victim, returned>>

NoRoom(s) ==
    /\ pc[s] = "bound" /\ Len(cache) >= MaxEntries
    /\ Go(s, "pick")
    /\ UNCHANGED <<root, file, writes, exposed, cache, frame, victim, returned>>

\* next(iter(cache)), a StopIteration when there is nothing left,
Pick(s) ==
    /\ pc[s] = "pick"
    /\ IF cache = <<>>
         THEN Go(s, "raised") /\ UNCHANGED victim
         ELSE Go(s, "pop") /\ victim' = [victim EXCEPT ![s] = Head(cache).key]
    /\ UNCHANGED <<root, file, writes, exposed, cache, frame, returned>>

\* cache.pop, a KeyError when the key has gone,
Pop(s) ==
    /\ pc[s] = "pop"
    /\ IF Cached(victim[s])
         THEN Go(s, "bound") /\ cache' = Without(victim[s])
         ELSE Go(s, "raised") /\ UNCHANGED cache
    /\ victim' = [victim EXCEPT ![s] = None]
    /\ UNCHANGED <<root, file, writes, exposed, frame, returned>>

\* cache[key] = value, and the frame is returned.
Store(s) ==
    /\ pc[s] = "store"
    /\ cache' = With(frame[s])
    /\ returned' = [returned EXCEPT ![s] = frame[s]]
    /\ frame' = [frame EXCEPT ![s] = None]
    /\ Go(s, "idle")
    /\ UNCHANGED <<root, file, writes, exposed, victim>>

\* The page shows the exception, the session goes on.
Recover(s) ==
    /\ pc[s] = "raised"
    /\ frame' = [frame EXCEPT ![s] = None]
    /\ Go(s, "idle")
    /\ UNCHANGED <<root, file, writes, exposed, cache, victim, returned>>

\* Someone writes to a version's file, or puts its bytes back.
WriteFile(v, state) ==
    /\ writes < MaxWrites
    /\ file[v] # state
    /\ file' = [file EXCEPT ![v] = state]
    /\ writes' = writes + 1
    /\ exposed' = IF state = "disguised" \/ \E s \in Session : pc[s] = "read" /\ root[s] = v
                    THEN exposed \cup {v} ELSE exposed
    /\ UNCHANGED <<root, cache, callVars, returned>>

FramesNext ==
    \/ \E s \in Session :
         \/ \E v \in Version \cup {None} : Trust(s, v)
         \/ Hit(s)
         \/ Miss(s)
         \/ Verify(s)
         \/ Read(s)
         \/ ReadFails(s)
         \/ Room(s)
         \/ NoRoom(s)
         \/ Pick(s)
         \/ Pop(s)
         \/ Store(s)
         \/ Recover(s)
    \/ \E v \in Version, state \in {"own", "changed", "disguised"} : WriteFile(v, state)

FramesSpec == FramesInit /\ [][FramesNext]_framesVars

-----------------------------------------------------------------------------
(***************************************************************************)
(* Properties                                                              *)
(***************************************************************************)

\* A call returns a frame its own session has read for the
\* version that governs it, whatever others store, evict and clear meanwhile
\* (CanonicalFrameKey is anchored on the session's capability); and a frame, from
\* the cache too, has the bytes of its version, unless the file was changed behind
\* its size and modification time or between the check and the reading
\* (_revalidate_source passes no content_id).
ReturnedIsOwn ==
    \A s \in Session : returned[s] # None =>
        /\ returned[s].by = s
        /\ returned[s].of = root[s]
        /\ returned[s].own \/ root[s] \in exposed

\* The cache holds no frame of a version that no longer governs, and so one frame
\* per session at most: a commit or a retirement in one session cannot be
\* outlasted by a read that was under way in another (_invalidation_hook).
CacheIsCurrent == \A i \in DOMAIN cache : cache[i].of = root[cache[i].by]

\* Sessions are isolated: what a call returns is its session's own frame of the version
\* that governs it, and the cache outlives no change of what governs (the two above).
OwnFramesOnly == ReturnedIsOwn /\ CacheIsCurrent
=============================================================================
