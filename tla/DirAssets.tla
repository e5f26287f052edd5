------------------------------ MODULE DirAssets ------------------------------
(***************************************************************************)
(* DirAssets of src/assets.go: static files served from a directory that   *)
(* changes under the running server.  Renders ask URL for a file's hash    *)
(* and requests are served by ServeHTTP, any number of them at a time;     *)
(* only the look into the hash cache and the store to it hold the mutex,   *)
(* every call to the file system is a step of its own and may fail, a file *)
(* is read in pieces, and the directory is edited between any two steps.   *)
(*                                                                         *)
(* One file name is enough: cache entries and files of different names     *)
(* never meet.  What a reader gets is the sequence of the bodies its       *)
(* pieces came from; a hash stands for what it was computed from (no two   *)
(* collide).  A stamp is a file's size and mtime; ASSUMPTION: no two       *)
(* versions of the file share one.  A half-written file is a body like any *)
(* other.  Operators whose names start with M are faulty variants of the   *)
(* definition after them.                                                  *)
(***************************************************************************)
EXTENDS Naturals, Sequences, FiniteSets

CONSTANTS Calls,      \* URL and ServeHTTP calls in progress
          Bodies,     \* contents of the file
          None,       \* no file
          Pieces,     \* how many reads it takes to the end of a file
          MaxEdits    \* bound: how often the directory is edited

ASSUME AssetsAssumption ==
  None \notin Bodies /\ Pieces \in Nat \ {0} /\ MaxEdits \in Nat

VARIABLES
  edits,     \* edits so far: the last one is the newest stamp
  inodes,    \* every file ever created: its body and stamp
  path,      \* the file the name leads to: an index of inodes, 0 if missing
  cache,     \* the dirHash of the name; stamp 0 before there is one
  pc, call,  \* where each call is, and its variables
  during,    \* history: what the name led to since the call began
  rewritten  \* history: the calls during which the file was written in place

files   == <<edits, inodes, path>>
history == <<during, rewritten>>
vars    == <<files, cache, pc, call, history>>

Body(p) == IF p = 0 THEN None ELSE inodes[p].body

\* What reading a file that holds b all the while gives.
Whole(b) == [i \in 1 .. Pieces |-> b]

\* v: the ?v= of a request; file: the file it opened; stamp: of the Stat in
\* hash; hashed: the file hash opened; hash: what it has read of that, and what
\* it returned; immutable, sent: the answer of a request.
Fresh == [v |-> <<>>, file |-> 0, stamp |-> 0, hashed |-> 0, hash |-> <<>>,
          immutable |-> FALSE, sent |-> <<>>]

TypeOK ==
  /\ edits \in 0 .. MaxEdits
  /\ inodes \in Seq([body : Bodies, stamp : 1 .. edits])
  /\ path \in 0 .. Len(inodes)
  /\ cache \in [stamp : 0 .. edits, hash : Seq(Bodies)]
  /\ pc \in [Calls -> {"idle", "open", "stat", "look", "reopen", "copy", "store", "decide",
                       "send", "url", "plain", "notfound", "served", "aborted"}]
  /\ call \in [Calls -> [v : Seq(Bodies), file : 0 .. Len(inodes), stamp : 0 .. edits,
                         hashed : 0 .. Len(inodes), hash : Seq(Bodies),
                         immutable : BOOLEAN, sent : Seq(Bodies)]]
  /\ \A c \in Calls : pc[c] \in {"send", "served"} => call[c].file # 0
  /\ during \in [Calls -> SUBSET (Bodies \cup {None})] /\ rewritten \subseteq Calls

Init ==
  /\ edits = 0 /\ inodes = <<>> /\ path = 0
  /\ cache = [stamp |-> 0, hash |-> <<>>]
  /\ pc = [c \in Calls |-> "idle"]
  /\ call = [c \in Calls |-> Fresh]
  /\ during = [c \in Calls |-> {}] /\ rewritten = {}

-----------------------------------------------------------------------------
(* The directory.                                                          *)

Edit(b) ==
  /\ edits < MaxEdits /\ edits' = edits + 1
  /\ during' = [c \in Calls |-> IF pc[c] = "idle" THEN {} ELSE during[c] \cup {b}]
  /\ UNCHANGED <<cache, pc, call>>

\* A deploy renames a new file over the name, or creates it.
Replace(b) ==
  /\ Edit(b)
  /\ inodes' = Append(inodes, [body |-> b, stamp |-> edits + 1])
  /\ path' = Len(inodes) + 1
  /\ UNCHANGED rewritten

\* An editor or a copy writes the file in place, also under a reader's hands.
Rewrite(b) ==
  /\ path # 0 /\ Edit(b)
  /\ inodes' = [inodes EXCEPT ![path] = [body |-> b, stamp |-> edits + 1]]
  /\ rewritten' = {c \in Calls : pc[c] # "idle"}
  /\ UNCHANGED path

Remove == path # 0 /\ Edit(None) /\ path' = 0 /\ UNCHANGED <<inodes, rewritten>>

-----------------------------------------------------------------------------
(* The calls.  The directory and the other calls are left alone.           *)

Step(c, from, to, after) ==
  /\ pc[c] = from /\ pc' = [pc EXCEPT ![c] = to]
  /\ call' = [call EXCEPT ![c] = after]
  /\ UNCHANGED <<files, history>>

Begin(c, to) ==
  /\ pc[c] = "idle" /\ pc' = [pc EXCEPT ![c] = to] /\ call' = [call EXCEPT ![c] = Fresh]
  /\ during' = [during EXCEPT ![c] = {Body(path)}] /\ rewritten' = rewritten \ {c}
  /\ UNCHANGED <<files, cache>>

\* A page is rendered: URL goes straight to hash.
BeginURL(c) == Begin(c, "stat")

\* A request.
BeginServe(c) == Begin(c, "open")

IsURL(c) == call[c].file = 0

\* How URL and ServeHTTP answer an error of hash: the plain path, or a 404.
Fail(c, from) == Step(c, from, IF IsURL(c) THEN "plain" ELSE "notfound", Fresh)

\* ServeHTTP opens the file it is going to send: an error, of Open or of the Stat
\* of what it opened, is a 404, as a directory is.
MOpen(c) ==
  /\ Step(c, "open", "send", [call[c] EXCEPT !.file = path])
  /\ UNCHANGED cache

Open(c) ==
  /\ \/ path # 0 /\ Step(c, "open", "stat", [call[c] EXCEPT !.file = path])
     \/ Step(c, "open", "notfound", Fresh)
  /\ UNCHANGED cache

\* hash: a.root.Stat, which may fail with the file in place, like each call below ...
Stat(c) ==
  /\ \/ /\ path # 0
        /\ Step(c, "stat", "look", [call[c] EXCEPT !.stamp = inodes[path].stamp])
     \/ Fail(c, "stat")
  /\ UNCHANGED cache

\* ... the entry of the cache, valid while size and mtime match ...
MLook(c) ==
  /\ IF cache.stamp # 0
       THEN Step(c, "look", "decide", [call[c] EXCEPT !.hash = cache.hash])
       ELSE Step(c, "look", "reopen", call[c])
  /\ UNCHANGED cache

Look(c) ==
  /\ IF cache.stamp = call[c].stamp
       THEN Step(c, "look", "decide", [call[c] EXCEPT !.hash = cache.hash])
       ELSE Step(c, "look", "reopen", call[c])
  /\ UNCHANGED cache

\* ... or a.root.Open, by name again ...
Reopen(c) ==
  /\ \/ path # 0 /\ Step(c, "reopen", "copy", [call[c] EXCEPT !.hashed = path, !.hash = <<>>])
     \/ Fail(c, "reopen")
  /\ UNCHANGED cache

\* ... io.Copy into the hash, a piece of the file at a time ...
Copy(c) ==
  /\ LET read == Append(call[c].hash, Body(call[c].hashed)) IN
       \/ Step(c, "copy", IF Len(read) = Pieces THEN "store" ELSE "copy",
               [call[c] EXCEPT !.hash = read])
       \/ Fail(c, "copy")
  /\ UNCHANGED cache

\* ... and the new entry, with the stamp of the Stat before: the faulty variant
\* takes the stamp the file has now.
MStore(c) ==
  /\ Step(c, "store", "decide", call[c])
  /\ cache' = [stamp |-> IF path = 0 THEN 0 ELSE inodes[path].stamp, hash |-> call[c].hash]

Store(c) ==
  /\ Step(c, "store", "decide", call[c])
  /\ cache' = [stamp |-> call[c].stamp, hash |-> call[c].hash]

\* URL returns the versioned URL; ServeHTTP reads the ?v= of the request, that of
\* any page, if it has one, and sets Cache-Control.
Versions == [1 .. Pieces -> Bodies] \cup {<<>>}

MDecide(c) ==
  /\ IF IsURL(c)
       THEN Step(c, "decide", "url", call[c])
       ELSE \E v \in Versions :
              Step(c, "decide", "send", [call[c] EXCEPT !.v = v, !.immutable = (v # <<>>)])
  /\ UNCHANGED cache

Decide(c) ==
  /\ IF IsURL(c)
       THEN Step(c, "decide", "url", call[c])
       ELSE \E v \in Versions :
              Step(c, "decide", "send",
                   [call[c] EXCEPT !.v = v, !.immutable = (v = call[c].hash)])
  /\ UNCHANGED cache

\* ServeContent sends what the opened file holds by now, a piece at a time, and
\* breaks off when a read or the connection fails.
Send(c) ==
  /\ LET sent == Append(call[c].sent, Body(call[c].file)) IN
       \/ Step(c, "send", IF Len(sent) = Pieces THEN "served" ELSE "send",
               [call[c] EXCEPT !.sent = sent])
       \/ Step(c, "send", "aborted", Fresh)
  /\ UNCHANGED cache

\* The caller has its answer.
End(c) ==
  /\ pc[c] \in {"url", "plain", "notfound", "served", "aborted"}
  /\ pc' = [pc EXCEPT ![c] = "idle"]
  /\ call' = [call EXCEPT ![c] = Fresh]
  /\ during' = [during EXCEPT ![c] = {}] /\ rewritten' = rewritten \ {c}
  /\ UNCHANGED <<files, cache>>

Next ==
  \/ \E b \in Bodies : Replace(b) \/ Rewrite(b)
  \/ Remove
  \/ \E c \in Calls : \/ BeginURL(c) \/ BeginServe(c) \/ Open(c)
                      \/ Stat(c) \/ Look(c) \/ Reopen(c) \/ Copy(c) \/ Store(c)
                      \/ Decide(c) \/ Send(c) \/ End(c)

Spec == Init /\ [][Next]_vars

-----------------------------------------------------------------------------
(* Properties.                                                             *)

\* An entry that matches the file on disk holds the hash of what is on disk, all
\* pieces of it, however the steps of the calls that fill the cache and the edits
\* interleave (hash, assets.go:184-211).
CacheHonest ==
  (path # 0 /\ cache.stamp = inodes[path].stamp) => cache.hash = Whole(Body(path))

\* Each piece was in the file while the call was under way, and unless the file
\* was written in place meanwhile, they are one version of it.
Honest(c, read) ==
  /\ read \in [1 .. Pieces -> during[c]]
  /\ c \notin rewritten => \E b \in during[c] : read = Whole(b)

\* A page never gets the hash of a version that was gone before its render began,
\* whoever stored that hash: after an edit the next render has the new URL, or the
\* plain path if a call failed.  Nor a hash of two versions, unless the file was
\* written in place during that very render (assets.go:147-151, 213-221).
UrlCurrent == \A c \in Calls : pc[c] = "url" => Honest(c, call[c].hash)

\* A response is immutable only for a version the file had while it was being
\* answered, and sends such a version too, with no mixture of two in either, unless
\* the file was written in place meanwhile: with no edit in between, an immutable
\* response is exactly the bytes its URL names (assets.go:229-264).
ImmutableHonest ==
  \A c \in Calls : pc[c] = "served" => /\ call[c].immutable => Honest(c, call[c].v)
                                       /\ Honest(c, call[c].sent)

\* The doc of ServeHTTP (assets.go:224-226): a matching ?v= "names exactly the
\* bytes being served (both are checked in this request), so it is immutable".
\* Asked only of answers during which nothing wrote the file in place.
DocImmutableExact ==
  \A c \in Calls :
    (pc[c] = "served" /\ call[c].immutable /\ c \notin rewritten) =>
      call[c].sent = call[c].v
=============================================================================
