-------------------------- MODULE TnyFsStreamCache --------------------------
(***************************************************************************)
(* The stream cache: tny-fs-stream-cache.c, tny-cached-file.c and          *)
(* tny-cached-file-stream.c of libtinymail.                                *)
(*                                                                         *)
(* A file that is asked for the first time is fetched by a thread of its   *)
(* own into <id>.tmp, while streams on it are read already, and renamed    *)
(* when it is whole; old files go when a new one needs their room.  The    *)
(* table of files has a lock, each file has one for its count of streams   *)
(* and one for the size fetched so far; everything else, the names on disk *)
(* above all, is read and written without any.                             *)
(***************************************************************************)
EXTENDS Integers, FiniteSetsExt, SequencesExt

CONSTANTS
  Callers,   \* threads that call the cache
  Ids,       \* the ids of streams
  Files,     \* identities of TnyCachedFile objects
  Streams,   \* identities of open TnyCachedFileStream objects
  Inodes,    \* identities of files on disk
  Nothing,   \* NULL; no inode, or a file descriptor of -1
  SizeOf,    \* the size of what an id stands for
  Surplus,   \* by how much a fetcher may announce too much
  MaxSizes,  \* values of max_size
  MaxActive, \* bound on active_ops, which a failing stream leaves counted
  Calls,     \* what is called: "get", "remove", "resize", "seek"
  Failures,  \* what may fail: "open", "read", "write"
  Crashes    \* TRUE if the process may end and start again

ASSUME CacheAssumption ==
  /\ IsFiniteSet(Files) /\ IsFiniteSet(Streams)
  /\ Nothing \notin Callers \cup Ids \cup Files \cup Inodes
  /\ SizeOf \in [Ids -> Nat \ {0}] /\ Surplus \subseteq Nat /\ MaxSizes \subseteq Nat
  /\ MaxActive \in Nat \ {0}
  /\ Calls \subseteq {"get", "remove", "resize", "seek"}
  /\ Failures \subseteq {"open", "read", "write"} /\ Crashes \in BOOLEAN

VARIABLES
  \* TnyFsStreamCachePriv.
  cached_files, max_size, cache_lock,
  \* TnyCachedFilePriv.
  id, expected, fetched, invalid, pending_close, active_ops,
  \* The fetching threads: program counter and file descriptor.
  fpc, write_fd,
  \* The directory, and the bytes in each inode.
  tmp, final, data,
  \* History: the ids for which a thread was started while an earlier one of the
  \* same id could still rename.
  overlap,
  \* The callers: program counter, id and size asked for, cached_file, the list
  \* of old files, available_size, and the descriptor just opened.
  pc, want, required, cached_file, old, available, new_fd,
  \* The streams: file, descriptor, position; those whose position_mutex is
  \* held for ever.
  file, fd, position, stuck

cacheVars  == <<cached_files, max_size, cache_lock>>
flagVars   == <<invalid, pending_close>>
sizeVars   == <<expected, fetched>>
fileVars   == <<id, sizeVars, flagVars, active_ops>>
threadVars == <<fpc, write_fd>>
diskVars   == <<tmp, final, data, overlap>>
callerVars == <<want, required, cached_file, old, available, new_fd>>
streamVars == <<file, fd, position, stuck>>
vars == <<cacheVars, fileVars, threadVars, diskVars, pc, callerVars, streamVars>>

FetchPc  == {"none", "loop", "drain", "end", "check", "rename", "drop", "ended"}
CallerPc == {"free", "fetch", "list", "sort", "evict", "mark", "unlink", "new",
             "insert", "choose", "open_tmp", "open_final", "register", "dead"}

Init ==
  /\ cached_files = [i \in Ids |-> Nothing] /\ max_size \in MaxSizes
  /\ cache_lock = Nothing
  /\ id = [f \in Files |-> Nothing]
  /\ expected = [f \in Files |-> 0] /\ fetched = [f \in Files |-> 0]
  /\ invalid = [f \in Files |-> FALSE]
  /\ pending_close = [f \in Files |-> FALSE]
  /\ active_ops = [f \in Files |-> 0]
  /\ fpc = [f \in Files |-> "none"] /\ write_fd = [f \in Files |-> Nothing]
  /\ tmp = [i \in Ids |-> Nothing] /\ final = [i \in Ids |-> Nothing]
  /\ data = [n \in Inodes |-> 0] /\ overlap = {}
  /\ pc = [c \in Callers |-> "free"] /\ want = [c \in Callers |-> Nothing]
  /\ required = [c \in Callers |-> 0]
  /\ cached_file = [c \in Callers |-> Nothing]
  /\ old = [c \in Callers |-> <<>>] /\ available = [c \in Callers |-> 0]
  /\ new_fd = [c \in Callers |-> Nothing]
  /\ file = [s \in Streams |-> Nothing] /\ fd = [s \in Streams |-> Nothing]
  /\ position = [s \in Streams |-> -1] /\ stuck = {}

----------------------------------------------------------------------------
(* What the actions are made of.                                           *)

Go(c, to)  == pc' = [pc EXCEPT ![c] = to]
FGo(f, to) == fpc' = [fpc EXCEPT ![f] = to]

\* The call returns, and its locals are gone.
Return(c) == /\ Go(c, "free")
             /\ want' = [want EXCEPT ![c] = Nothing]
             /\ required' = [required EXCEPT ![c] = 0]
             /\ cached_file' = [cached_file EXCEPT ![c] = Nothing]
             /\ old' = [old EXCEPT ![c] = <<>>]
             /\ available' = [available EXCEPT ![c] = 0]
             /\ new_fd' = [new_fd EXCEPT ![c] = Nothing]

Entries == {cached_files[i] : i \in Ids} \ {Nothing}

\* fetch_stream # NULL, which is_finished denies.
Fetching(f) == fpc[f] \in {"loop", "drain", "end"}

\* What the thread of f fetches may still get the name <id>.
MayRename(f) == \/ fpc[f] = "rename"
                \/ fpc[f] \in {"loop", "end", "check"} /\ ~invalid[f]

\* tny_cached_file_is_active, and the sizes that the cache counts.
Active(f) == active_ops[f] > 0
SumOf(fs) == MapThenSumSet(LAMBDA f : expected[f], fs)

\* get_available_size and get_free_space.
AvailableSize_All == max_size
AvailableSize     == max_size - SumOf({f \in Entries : Active(f)})
FreeSpace_Finished == max_size - SumOf({f \in Entries : ~Fetching(f)})
FreeSpace          == max_size - SumOf(Entries)

\* remove_priority: unfinished files first, then by timestamp.  That of a file
\* that was fetched is never set: get_timestamp sets it for active files, which
\* are not on the list.  That of a file found on disk is its time of access.
Priority(f) == IF Fetching(f) THEN 0 ELSE IF fpc[f] = "none" THEN 2 ELSE 1
Sorted(fs)  == {l \in SetToSeqs(fs) :
                  \A m, n \in 1..Len(l) : m < n => Priority(l[m]) <= Priority(l[n])}

\* The fetching thread keeps its reference for ever: no object is used again.
\* An inode is, when it has neither a name nor a descriptor.  Which one is taken
\* makes no difference.
Unused(f) == id[f] = Nothing
UnusedInode(n) == /\ \A i \in Ids : n \notin {tmp[i], final[i]}
                  /\ \A f \in Files : n # write_fd[f]
                  /\ \A c \in Callers : n # new_fd[c]
                  /\ \A s \in Streams : n # fd[s]

----------------------------------------------------------------------------
(* tny_fs_stream_cache_get_stream.                                         *)

Lookup(c, i) ==
  /\ pc[c] = "free" /\ "get" \in Calls /\ cache_lock = Nothing
  /\ \E s \in Streams : file[s] = Nothing
  /\ cached_files[i] # Nothing => active_ops[cached_files[i]] < MaxActive
  /\ want' = [want EXCEPT ![c] = i]
  /\ cached_file' = [cached_file EXCEPT ![c] = cached_files[i]]
  /\ Go(c, IF cached_files[i] # Nothing THEN "choose" ELSE "fetch")
  /\ UNCHANGED <<cacheVars, fileVars, threadVars, diskVars, required, old,
                 available, new_fd, streamVars>>

\* The fetcher may fail; what is too large is given to the caller uncached.
Fetch(c) ==
  /\ pc[c] = "fetch" /\ cache_lock = Nothing
  /\ \/ Return(c)
     \/ \E n \in Surplus :
          LET size == SizeOf[want[c]] + n
          IN IF size <= AvailableSize
             THEN /\ required' = [required EXCEPT ![c] = size] /\ Go(c, "list")
                  /\ UNCHANGED <<want, cached_file, old, available, new_fd>>
             ELSE Return(c)
  /\ UNCHANGED <<cacheVars, fileVars, threadVars, diskVars, streamVars>>

\* remove_old_files, 1. and 2.: the list is made and then sorted, as the files
\* are by then.
List(c) ==
  /\ pc[c] = "list" /\ cache_lock = Nothing
  /\ \E l \in SetToSeqs({f \in Entries : ~Active(f)}) : old' = [old EXCEPT ![c] = l]
  /\ Go(c, "sort")
  /\ UNCHANGED <<cacheVars, fileVars, threadVars, diskVars, want, required,
                 cached_file, available, new_fd, streamVars>>

Sort(c) ==
  /\ pc[c] = "sort" /\ cache_lock = Nothing
  /\ \E l \in Sorted(ToSet(old[c])) : old' = [old EXCEPT ![c] = l]
  /\ available' = [available EXCEPT ![c] = FreeSpace]
  /\ Go(c, "evict")
  /\ UNCHANGED <<cacheVars, fileVars, threadVars, diskVars, want, required,
                 cached_file, new_fd, streamVars>>

\* 3.: until there is room, the first of the list goes.  There need not be one:
\* its data is then read through NULL.
Evict(c) ==
  /\ pc[c] = "evict" /\ cache_lock = Nothing
  /\ IF available[c] >= required[c]
     THEN /\ IF want[c] = Nothing
             THEN Return(c)
             ELSE /\ old' = [old EXCEPT ![c] = <<>>] /\ Go(c, "new")
                  /\ UNCHANGED <<want, required, cached_file, available, new_fd>>
          /\ UNCHANGED cached_files
     ELSE IF old[c] = <<>>
     THEN Go(c, "dead") /\ UNCHANGED <<cached_files, callerVars>>
     ELSE LET f == Head(old[c])
          IN /\ available' = [available EXCEPT ![c] = @ + expected[f]]
             /\ cached_files' = [cached_files EXCEPT ![id[f]] = Nothing]
             /\ cached_file' = [cached_file EXCEPT ![c] = f]
             /\ old' = [old EXCEPT ![c] = Tail(@)]
             /\ Go(c, "mark") /\ UNCHANGED <<want, required, new_fd>>
  /\ UNCHANGED <<max_size, cache_lock, fileVars, threadVars, diskVars, streamVars>>

----------------------------------------------------------------------------
(* tny_cached_file_remove, called with cache_lock held by the filter of    *)
(* tny_fs_stream_cache_remove and without it by remove_old_files.          *)

\* g_return_if_fail: what has streams open stays as it is.
MayRemove(f) == ~Active(f)

\* Back in the caller: the filter's entry is dropped by the table itself.
Removed(c) ==
  IF cache_lock = c
  THEN /\ cached_files' = [cached_files EXCEPT ![want[c]] = Nothing]
       /\ cache_lock' = Nothing /\ Return(c)
  ELSE Go(c, "evict") /\ UNCHANGED <<cached_files, cache_lock, callerVars>>

Mark(c) ==
  /\ pc[c] = "mark"
  /\ IF MayRemove(cached_file[c])
     THEN /\ invalid' = [invalid EXCEPT ![cached_file[c]] = TRUE]
          /\ Go(c, "unlink") /\ UNCHANGED <<cached_files, cache_lock, callerVars>>
     ELSE Removed(c) /\ UNCHANGED invalid
  /\ UNCHANGED <<max_size, id, sizeVars, pending_close, active_ops,
                 threadVars, diskVars, streamVars>>

\* The thread that still fetches is left to clean up.
Unlink(c) ==
  /\ pc[c] = "unlink"
  /\ LET f == cached_file[c]
     IN IF Fetching(f)
        THEN pending_close' = [pending_close EXCEPT ![f] = TRUE] /\ UNCHANGED final
        ELSE final' = [final EXCEPT ![id[f]] = Nothing] /\ UNCHANGED pending_close
  /\ Removed(c)
  /\ UNCHANGED <<max_size, id, sizeVars, invalid, active_ops,
                 threadVars, tmp, data, overlap, streamVars>>

\* A filter that takes the entry of i.
Filter(c, i) ==
  /\ pc[c] = "free" /\ "remove" \in Calls /\ cache_lock = Nothing
  /\ cached_files[i] # Nothing
  /\ cache_lock' = c
  /\ want' = [want EXCEPT ![c] = i]
  /\ cached_file' = [cached_file EXCEPT ![c] = cached_files[i]]
  /\ Go(c, "mark")
  /\ UNCHANGED <<cached_files, max_size, fileVars, threadVars, diskVars, required,
                 old, available, new_fd, streamVars>>

\* tny_fs_stream_cache_set_max_size.
SetMaxSize(c, size) ==
  /\ pc[c] = "free" /\ "resize" \in Calls /\ size # max_size
  /\ max_size' = size
  /\ want' = [want EXCEPT ![c] = Nothing]
  /\ required' = [required EXCEPT ![c] = 0]
  /\ Go(c, "list")
  /\ UNCHANGED <<cached_files, cache_lock, fileVars, threadVars, diskVars,
                 cached_file, old, available, new_fd, streamVars>>

----------------------------------------------------------------------------
(* The new file, and a stream on it or on the one that was found.          *)

\* tny_cached_file_new: without O_EXCL, an <id>.tmp that is there is shared.
New(c) ==
  /\ pc[c] = "new" /\ \E f \in Files : Unused(f)
  /\ LET f == CHOOSE f \in Files : Unused(f)
         i == want[c]
         Opens(n) == write_fd' = [write_fd EXCEPT ![f] = n]
     IN /\ cached_file' = [cached_file EXCEPT ![c] = f]
        /\ id' = [id EXCEPT ![f] = i]
        /\ expected' = [expected EXCEPT ![f] = required[c]]
        /\ FGo(f, "loop")
        /\ \/ tmp[i] # Nothing /\ Opens(tmp[i]) /\ UNCHANGED <<tmp, data>>
           \/ /\ tmp[i] = Nothing /\ \E n \in Inodes : UnusedInode(n)
              /\ LET n == CHOOSE n \in Inodes : UnusedInode(n)
                 IN /\ Opens(n)
                    /\ tmp' = [tmp EXCEPT ![i] = n] /\ data' = [data EXCEPT ![n] = 0]
           \/ "open" \in Failures /\ Opens(Nothing) /\ UNCHANGED <<tmp, data>>
        /\ overlap' = IF \E g \in Files : id[g] = i /\ MayRename(g)
                      THEN overlap \cup {i} ELSE overlap
  /\ Go(c, "insert")
  /\ UNCHANGED <<cacheVars, fetched, flagVars, active_ops, final, want, required,
                 old, available, new_fd, streamVars>>

Insert(c) ==
  /\ pc[c] = "insert" /\ cache_lock = Nothing
  /\ cached_files' = [cached_files EXCEPT ![want[c]] = cached_file[c]]
  /\ Go(c, "choose")
  /\ UNCHANGED <<max_size, cache_lock, fileVars, threadVars, diskVars, callerVars,
                 streamVars>>

\* tny_cached_file_get_stream: NULL for an invalid file.  Which name is opened
\* is decided before it is opened, by what the fetching thread has said.
Choose(c) ==
  /\ pc[c] = "choose"
  /\ IF invalid[cached_file[c]]
     THEN Return(c)
     ELSE /\ Go(c, IF Fetching(cached_file[c]) THEN "open_tmp" ELSE "open_final")
          /\ UNCHANGED callerVars
  /\ UNCHANGED <<cacheVars, fileVars, threadVars, diskVars, streamVars>>

Open(c) ==
  /\ pc[c] \in {"open_tmp", "open_final"}
  /\ new_fd' = [new_fd EXCEPT ![c] = IF pc[c] = "open_tmp"
                                     THEN tmp[id[cached_file[c]]]
                                     ELSE final[id[cached_file[c]]]]
  /\ Go(c, "register")
  /\ UNCHANGED <<cacheVars, fileVars, threadVars, diskVars, want, required,
                 cached_file, old, available, streamVars>>

Register_Uncounted(c) ==
  /\ pc[c] = "register" /\ \E s \in Streams : file[s] = Nothing
  /\ LET s == CHOOSE s \in Streams : file[s] = Nothing
     IN /\ file' = [file EXCEPT ![s] = cached_file[c]]
        /\ fd' = [fd EXCEPT ![s] = new_fd[c]]
        /\ position' = [position EXCEPT ![s] = 0]
  /\ Return(c)
  /\ UNCHANGED <<cacheVars, fileVars, threadVars, diskVars, stuck>>

\* The descriptor is not looked at.
Register(c) ==
  /\ pc[c] = "register" /\ \E s \in Streams : file[s] = Nothing
  /\ active_ops' = [active_ops EXCEPT ![cached_file[c]] = @ + 1]
  /\ LET s == CHOOSE s \in Streams : file[s] = Nothing
     IN /\ file' = [file EXCEPT ![s] = cached_file[c]]
        /\ fd' = [fd EXCEPT ![s] = new_fd[c]]
        /\ position' = [position EXCEPT ![s] = 0]
  /\ Return(c)
  /\ UNCHANGED <<cacheVars, id, sizeVars, flagVars, threadVars, diskVars,
                 stuck>>

----------------------------------------------------------------------------
(* TnyCachedFileStream.                                                    *)

\* tny_cached_file_wait_fetchable returns, and what it returns.
Fetchable(f, offset)     == invalid[f] \/ offset <= fetched[f]
FetchableSize(f)         == IF invalid[f] THEN -1 ELSE fetched[f]

\* One unit is read, if it is there.  An error of read moves the position back.
Read(s) ==
  /\ file[s] # Nothing /\ s \notin stuck
  /\ Fetchable(file[s], position[s])
  /\ position[s] # -1 /\ FetchableSize(file[s]) >= position[s]
  /\ LET n == Min({FetchableSize(file[s]) - position[s], 1})
         nread == IF fd[s] = Nothing THEN -1
                  ELSE IF data[fd[s]] > position[s] THEN n ELSE 0
     IN position' = [position EXCEPT ![s] = @ + nread]
  /\ UNCHANGED <<cacheVars, fileVars, threadVars, diskVars, pc, callerVars, file,
                 fd, stuck>>

\* close and the release of the stream: -1 stands for closed.
Close(s) ==
  /\ file[s] # Nothing /\ s \notin stuck
  /\ active_ops' = [active_ops EXCEPT ![file[s]] = IF position[s] = -1 THEN @
                                                   ELSE @ - 1]
  /\ position' = [position EXCEPT ![s] = -1]
  /\ file' = [file EXCEPT ![s] = Nothing] /\ fd' = [fd EXCEPT ![s] = Nothing]
  /\ UNCHANGED <<cacheVars, id, sizeVars, flagVars, threadVars, diskVars,
                 pc, callerVars, stuck>>

\* tny_cached_file_seek locks position_mutex, and again, or returns with it.
Seek(s) ==
  /\ "seek" \in Calls /\ file[s] # Nothing /\ s \notin stuck
  /\ stuck' = stuck \cup {s}
  /\ UNCHANGED <<cacheVars, fileVars, threadVars, diskVars, pc, callerVars, file,
                 fd, position>>

----------------------------------------------------------------------------
(* async_fetch_stream.                                                     *)

\* One turn: what was read is written, and counted.
FetchChunk(f) ==
  /\ fpc[f] = "loop" /\ fetched[f] < SizeOf[id[f]]
  /\ \/ /\ ~pending_close[f] /\ write_fd[f] # Nothing
        /\ fetched' = [fetched EXCEPT ![f] = @ + 1]
        /\ data' = [data EXCEPT ![write_fd[f]] = Max({@, fetched[f] + 1})]
        /\ UNCHANGED <<invalid, fpc>>
     \/ /\ pending_close[f] \/ "read" \in Failures
        /\ invalid' = [invalid EXCEPT ![f] = TRUE]
        /\ FGo(f, "end") /\ UNCHANGED <<fetched, data>>
     \/ /\ write_fd[f] = Nothing \/ "write" \in Failures
        /\ invalid' = [invalid EXCEPT ![f] = TRUE]
        /\ FGo(f, "drain") /\ UNCHANGED <<fetched, data>>
  /\ UNCHANGED <<cacheVars, id, expected, pending_close, active_ops,
                 write_fd, tmp, final, overlap, pc, callerVars, streamVars>>

\* The end of the input; after a failed write the rest has been read for nothing.
FetchEos(f) ==
  /\ fpc[f] = "drain" \/ (fpc[f] = "loop" /\ fetched[f] = SizeOf[id[f]])
  /\ FGo(f, "end")
  /\ UNCHANGED <<cacheVars, fileVars, write_fd, diskVars, pc, callerVars, streamVars>>

FetchEnd(f) ==
  /\ fpc[f] = "end"
  /\ FGo(f, "check")
  /\ UNCHANGED <<cacheVars, fileVars, write_fd, diskVars, pc, callerVars, streamVars>>

\* Mutant: what a failed fetch has left gets the name, too.
FetchCheck_Any(f) ==
  /\ fpc[f] = "check"
  /\ FGo(f, "rename")
  /\ UNCHANGED <<cacheVars, fileVars, write_fd, diskVars, pc, callerVars, streamVars>>

FetchCheck(f) ==
  /\ fpc[f] = "check"
  /\ FGo(f, IF invalid[f] THEN "drop" ELSE "rename")
  /\ UNCHANGED <<cacheVars, fileVars, write_fd, diskVars, pc, callerVars, streamVars>>

\* g_rename fails if there is no <id>.tmp any more.
FetchRename(f) ==
  /\ fpc[f] = "rename"
  /\ IF tmp[id[f]] = Nothing
     THEN invalid' = [invalid EXCEPT ![f] = TRUE] /\ UNCHANGED <<tmp, final>>
     ELSE /\ final' = [final EXCEPT ![id[f]] = tmp[id[f]]]
          /\ tmp' = [tmp EXCEPT ![id[f]] = Nothing]
          /\ UNCHANGED invalid
  /\ FGo(f, "drop")
  /\ UNCHANGED <<cacheVars, id, sizeVars, pending_close, active_ops,
                 write_fd, data, overlap, pc, callerVars, streamVars>>

FetchDrop_Announced(f) ==
  /\ fpc[f] = "drop"
  /\ write_fd' = [write_fd EXCEPT ![f] = Nothing]
  /\ tmp' = IF invalid[f] THEN [tmp EXCEPT ![id[f]] = Nothing] ELSE tmp
  /\ FGo(f, "ended")
  /\ UNCHANGED <<cacheVars, fileVars, final, data, overlap, pc, callerVars, streamVars>>

FetchDrop(f) ==
  /\ fpc[f] = "drop"
  /\ write_fd' = [write_fd EXCEPT ![f] = Nothing]
  /\ IF invalid[f]
     THEN tmp' = [tmp EXCEPT ![id[f]] = Nothing] /\ UNCHANGED expected
     ELSE expected' = [expected EXCEPT ![f] = fetched[f]] /\ UNCHANGED tmp
  /\ FGo(f, "ended")
  /\ UNCHANGED <<cacheVars, id, fetched, flagVars, active_ops, final, data, overlap,
                 pc, callerVars, streamVars>>

----------------------------------------------------------------------------
(* The process ends, and starts again: fill_from_cache.                    *)

OnDisk == {i \in Ids : final[i] # Nothing}

Restart(size) ==
  /\ Crashes /\ \E g \in [OnDisk -> Files] : IsInjective(g)
  /\ max_size' = size /\ cache_lock' = Nothing
  /\ tmp' = [i \in Ids |-> Nothing]
  /\ LET g == CHOOSE g \in [OnDisk -> Files] : IsInjective(g)
         Found == Range(g)
         Size  == [f \in Files |-> IF f \in Found THEN data[final[Inverse(g, OnDisk, Found)[f]]]
                                  ELSE 0]
     IN /\ cached_files' = [i \in Ids |-> IF i \in OnDisk THEN g[i] ELSE Nothing]
        /\ id' = [f \in Files |-> IF f \in Found THEN Inverse(g, OnDisk, Found)[f] ELSE Nothing]
        /\ expected' = Size /\ fetched' = Size
  /\ invalid' = [f \in Files |-> FALSE]
  /\ pending_close' = [f \in Files |-> FALSE] /\ active_ops' = [f \in Files |-> 0]
  /\ fpc' = [f \in Files |-> "none"] /\ write_fd' = [f \in Files |-> Nothing]
  /\ pc' = [c \in Callers |-> "free"] /\ want' = [c \in Callers |-> Nothing]
  /\ required' = [c \in Callers |-> 0]
  /\ cached_file' = [c \in Callers |-> Nothing]
  /\ old' = [c \in Callers |-> <<>>] /\ available' = [c \in Callers |-> 0]
  /\ new_fd' = [c \in Callers |-> Nothing]
  /\ file' = [s \in Streams |-> Nothing] /\ fd' = [s \in Streams |-> Nothing]
  /\ position' = [s \in Streams |-> -1] /\ stuck' = {}
  /\ UNCHANGED <<final, data, overlap>>

----------------------------------------------------------------------------
FetchStep(f) == \/ FetchChunk(f) \/ FetchEos(f) \/ FetchEnd(f) \/ FetchCheck(f)
                \/ FetchRename(f) \/ FetchDrop(f)
CallerStep(c) == \/ Fetch(c) \/ List(c) \/ Sort(c) \/ Evict(c) \/ Mark(c)
                 \/ Unlink(c) \/ New(c) \/ Insert(c) \/ Choose(c) \/ Open(c)
                 \/ Register(c)
Call(c) == \/ \E i \in Ids : Lookup(c, i) \/ Filter(c, i)
           \/ \E size \in MaxSizes : SetMaxSize(c, size)

\* A caller that reads through NULL takes the process with it.
Running == \A c \in Callers : pc[c] # "dead"

Next == \/ /\ Running
           /\ \/ \E c \in Callers : Call(c) \/ CallerStep(c)
              \/ \E f \in Files : FetchStep(f)
              \/ \E s \in Streams : Read(s) \/ Close(s) \/ Seek(s)
        \/ \E size \in MaxSizes : Restart(size)

Spec == Init /\ [][Next]_vars

\* The threads run, and who has a stream reads it.
Fairness == /\ \A f \in Files : WF_vars(Running /\ FetchStep(f))
            /\ \A s \in Streams : WF_vars(Running /\ Read(s))

FairSpec == Spec /\ Fairness

----------------------------------------------------------------------------
TypeOK ==
  /\ cached_files \in [Ids -> Files \cup {Nothing}] /\ max_size \in MaxSizes
  /\ cache_lock \in Callers \cup {Nothing}
  /\ id \in [Files -> Ids \cup {Nothing}]
  /\ expected \in [Files -> Nat] /\ fetched \in [Files -> Nat]
  /\ invalid \in [Files -> BOOLEAN]
  /\ pending_close \in [Files -> BOOLEAN]
  /\ active_ops \in [Files -> Nat]
  /\ fpc \in [Files -> FetchPc] /\ write_fd \in [Files -> Inodes \cup {Nothing}]
  /\ tmp \in [Ids -> Inodes \cup {Nothing}] /\ final \in [Ids -> Inodes \cup {Nothing}]
  /\ data \in [Inodes -> Nat] /\ overlap \subseteq Ids
  /\ pc \in [Callers -> CallerPc] /\ want \in [Callers -> Ids \cup {Nothing}]
  /\ required \in [Callers -> Nat]
  /\ cached_file \in [Callers -> Files \cup {Nothing}]
  /\ old \in [Callers -> Seq(Files)] /\ available \in [Callers -> Int]
  /\ new_fd \in [Callers -> Inodes \cup {Nothing}]
  /\ file \in [Streams -> Files \cup {Nothing}]
  /\ fd \in [Streams -> Inodes \cup {Nothing}]
  /\ position \in [Streams -> Int] /\ stuck \subseteq Streams

\* An entry of the table that is fetched and not marked invalid is on disk under
\* its name, as large as the cache counts it: no thread that is still cleaning up
\* after an earlier file of the same id has taken its name away.  What was fetched
\* in this process is counted as what came; what a start has found is counted as
\* what is there, and FoundWhole says when that is all.
EntryReadable ==
  \A f \in Entries :
    ~invalid[f] /\ fpc[f] \in {"none", "ended"} =>
      /\ final[id[f]] # Nothing
      /\ data[final[id[f]]] = expected[f] /\ fetched[f] = expected[f]

\* What a start would take for fetched is whole, wherever the process ends, how
\* many times it has started and whatever has failed: with the name <id> is all
\* that the id has, unless two threads of the id could rename.  Then the one that
\* was removed may rename what the other one has begun, and the next start counts
\* that part as the whole.
FoundWhole ==
  \A i \in Ids \ overlap : final[i] # Nothing => data[final[i]] = SizeOf[i]

\* When a file enters the table, all that the table counts fits into max_size.
InsertFits ==
  [][\A c \in Callers : pc[c] = "insert" /\ pc'[c] = "choose" =>
       SumOf(Entries)' <= max_size]_vars

\* The list of old files is exhausted only by a smaller max_size, or when a file
\* that was counted as announced came smaller while the list was worked off: there
\* is room then.  It never happens because streams are open.
ExhaustedWithRoom ==
  \A c \in Callers : pc[c] = "dead" /\ want[c] # Nothing => required[c] <= FreeSpace

\* A stream that is read on ends: at the announced end, which is corrected when
\* less has come, or with an error; unless the process dies in the eviction loop.
AtEnd(s) == \/ file[s] = Nothing \/ position[s] = -1
            \/ invalid[file[s]] \/ position[s] >= expected[file[s]]
ReadingEnds == \A s \in Streams : file[s] # Nothing ~> AtEnd(s) \/ s \in stuck \/ ~Running
=============
