--------------------------- MODULE DirAssetsProofs ---------------------------
(***************************************************************************)
(* Proofs about DirAssets, for any number of concurrent calls, any bodies, *)
(* any number of pieces and any number of edits.                           *)
(*                                                                         *)
(* None of the three properties is inductive.  That a matching cache entry *)
(* is right depends on the calls that are about to store one: Stamps says  *)
(* that a call whose Stat still describes the file has opened and hashed   *)
(* that very file, because every edit makes a stamp newer than any that a  *)
(* call or the cache remembers.  That a call may use an entry another call *)
(* stored depends on when that call read each piece of the file: Shared    *)
(* says it was while the first call was under way, or that the file is     *)
(* still the same; and that pieces of two versions only meet in one entry  *)
(* when the file was written in place while the first call was under way.  *)
(***************************************************************************)
EXTENDS DirAssets, SequenceTheorems, TLAPS

-----------------------------------------------------------------------------
(* What is read of a file.                                                 *)

\* Every piece is of a body of D.
From(read, D) == \A i \in 1 .. Len(read) : read[i] \in D

\* What a call knows of a file that holds b, and of which something was read: D is
\* what the name led to since the call began, R the calls that saw the file being
\* written in place.
Partial(c, D, R, read, b) ==
  /\ b \in D /\ From(read, D)
  /\ c \notin R => From(read, {b})

\* The same of a file that was read to its end.
Done(c, D, R, read) ==
  /\ Len(read) = Pieces /\ From(read, D)
  /\ c \notin R => \E b \in D : From(read, {b})

LEMMA NothingRead == \A D : From(<<>>, D) /\ <<>> \in Seq(Bodies)
BY EmptySeq DEF From

LEMMA FromMore == ASSUME NEW read, NEW D, NEW E, From(read, D), D \subseteq E PROVE From(read, E)
BY DEF From

\* One piece more, of a body that is in the file now.
LEMMA OneMore ==
  ASSUME NEW read \in Seq(Bodies), NEW b \in Bodies
  PROVE  /\ Append(read, b) \in Seq(Bodies)
         /\ \A D : From(read, D) /\ b \in D => From(Append(read, b), D)
<1>1. /\ Append(read, b) \in Seq(Bodies) /\ Len(read) \in Nat
      /\ Len(Append(read, b)) = Len(read) + 1
      /\ Append(read, b)[Len(read) + 1] = b
      /\ \A i \in 1 .. Len(read) : Append(read, b)[i] = read[i]
  BY AppendProperties, LenProperties
<1>2. \A i \in 1 .. Len(read) + 1 : i \in 1 .. Len(read) \/ i = Len(read) + 1
  BY <1>1
<1> QED  BY <1>1, <1>2 DEF From

\* A reading that is whole is the one of a file that held one body all the while.
LEMMA WholeRead ==
  ASSUME NEW read \in Seq(Bodies), NEW b, Len(read) = Pieces, From(read, {b})
  PROVE  read = Whole(b)
<1>1. read \in [1 .. Pieces -> Bodies]
  BY LenProperties
<1>2. \A i \in 1 .. Pieces : read[i] = b
  BY DEF From
<1> QED  BY <1>1, <1>2 DEF Whole

LEMMA WholeDone ==
  ASSUME NEW c, NEW D, NEW R, NEW b \in Bodies, b \in D PROVE Done(c, D, R, Whole(b))
<1>1. Whole(b) \in Seq(Bodies) /\ Len(Whole(b)) = Pieces
  <2>1. Whole(b) \in [1 .. Pieces -> Bodies] /\ Pieces \in Nat
    BY AssetsAssumption DEF Whole, AssetsAssumption
  <2>2. Whole(b) \in Seq(Bodies)
    BY <2>1, SeqDef
  <2> QED  BY <2>1, <2>2, LenProperties
<1>2. From(Whole(b), {b}) /\ From(Whole(b), D)
  BY <1>1 DEF From, Whole
<1> QED  BY <1>1, <1>2 DEF Done

\* What was read to its end, and honestly.
LEMMA DoneHonest ==
  ASSUME TypeOK, NEW c \in Calls, NEW read \in Seq(Bodies),
         Done(c, during[c], rewritten, read)
  PROVE  Honest(c, read)
<1>1. read \in [1 .. Pieces -> Bodies]
  BY LenProperties DEF Done
<1>2. read \in [1 .. Pieces -> during[c]]
  BY <1>1 DEF Done, From
<1>3. ASSUME c \notin rewritten PROVE \E b \in during[c] : read = Whole(b)
  <2>1. PICK b \in during[c] : From(read, {b})
    BY <1>3 DEF Done
  <2> QED  BY <2>1, WholeRead DEF Done
<1> QED  BY <1>2, <1>3 DEF Honest

-----------------------------------------------------------------------------
(* The invariant.                                                          *)

\* What a call that will store an entry has read, while its stamp is current.
Stamps ==
  \A c \in Calls :
    (path # 0 /\ call[c].stamp = inodes[path].stamp) =>
      /\ pc[c] = "copy" => call[c].hashed = path
      /\ pc[c] \in {"copy", "store"} => From(call[c].hash, {Body(path)})

\* What a call has read or is sending was there while it was under way.
OwnOf(c) ==
  pc[c] # "idle" =>
    /\ Body(path) \in during[c]
    /\ call[c].file # 0 => Partial(c, during[c], rewritten, call[c].sent, Body(call[c].file))
    /\ pc[c] \notin {"send", "served"} => call[c].sent = <<>>
    /\ pc[c] = "copy" =>
         call[c].hashed # 0
         /\ Partial(c, during[c], rewritten, call[c].hash, Body(call[c].hashed))
    /\ pc[c] \in {"store", "decide", "url"} => Done(c, during[c], rewritten, call[c].hash)
    /\ call[c].immutable => Done(c, during[c], rewritten, call[c].v)
    /\ pc[c] = "served" => Len(call[c].sent) = Pieces

Own == \A c \in Calls : OwnOf(c)

\* What a call at the cache may find there, now or by the time it looks.
SharedOf(c, d) ==
  pc[c] = "look" =>
    /\ call[c].stamp # 0
    /\ cache.stamp = call[c].stamp => Done(c, during[c], rewritten, cache.hash)
    /\ (pc[d] = "copy" /\ call[d].stamp = call[c].stamp) =>
          Partial(c, during[c], rewritten, call[d].hash, Body(call[d].hashed))
    /\ (pc[d] = "store" /\ call[d].stamp = call[c].stamp) =>
          Done(c, during[c], rewritten, call[d].hash)

Shared == \A c, d \in Calls : SharedOf(c, d)

AssetsInv == TypeOK /\ CacheHonest /\ Stamps /\ Own /\ Shared

CallRecords == [v : Seq(Bodies), file : 0 .. Len(inodes), stamp : 0 .. edits,
                hashed : 0 .. Len(inodes), hash : Seq(Bodies),
                immutable : BOOLEAN, sent : Seq(Bodies)]

Places == {"idle", "open", "stat", "look", "reopen", "copy", "store", "decide", "send",
           "url", "plain", "notfound", "served", "aborted"}

LEMMA FreshType ==
  ASSUME TypeOK PROVE Fresh \in CallRecords
<1>1. Len(inodes) \in Nat /\ edits \in Nat
  BY LenProperties, AssetsAssumption DEF TypeOK
<1> QED  BY <1>1, NothingRead DEF Fresh, CallRecords

-----------------------------------------------------------------------------
(* Edits.                                                                  *)

LEMMA InitInv == Init => AssetsInv
<1> SUFFICES ASSUME Init PROVE AssetsInv
  OBVIOUS
<1>1. inodes \in Seq([body : Bodies, stamp : 1 .. edits]) /\ Len(inodes) = 0
  BY EmptySeq DEF Init
<1>2. TypeOK
  BY <1>1, AssetsAssumption, NothingRead DEF Init, TypeOK, Fresh
<1>3. CacheHonest /\ Stamps /\ Own /\ Shared
  BY DEF Init, CacheHonest, Stamps, Own, OwnOf, Shared, SharedOf
<1> QED  BY <1>2, <1>3 DEF AssetsInv

\* What the three edits have in common: the name leads to b with a new stamp,
\* or nowhere, and no other file changes; one that does, is written in place.
Effect(b) ==
  /\ Edit(b)
  /\ inodes' \in Seq([body : Bodies, stamp : 1 .. edits + 1])
  /\ Len(inodes) <= Len(inodes')
  /\ path' \in 0 .. Len(inodes')
  /\ IF path' = 0 THEN b = None
                 ELSE inodes'[path'].body = b /\ inodes'[path'].stamp = edits + 1
  /\ \A i \in 1 .. Len(inodes) :
       inodes'[i].body = inodes[i].body \/ inodes'[i].body = b
  /\ \/ UNCHANGED rewritten /\ \A i \in 1 .. Len(inodes) : inodes'[i].body = inodes[i].body
     \/ rewritten' = {c \in Calls : pc[c] # "idle"}

\* A call under way still knows what it knew of a file ...
LEMMA PartialEdit ==
  ASSUME NEW c, NEW D, NEW R, NEW read, NEW b, NEW e, NEW E, NEW S, NEW f,
         Partial(c, D, R, read, b), E = D \cup {e},
         f = b \/ f = e, c \in S \/ (f = b /\ S = R)
  PROVE  Partial(c, E, S, read, f)
<1>1. From(read, D) /\ b \in D
  BY DEF Partial
<1>2. From(read, E)
  BY <1>1, FromMore
<1> QED  BY <1>1, <1>2 DEF Partial

\* ... and of a reading.
LEMMA DoneEdit ==
  ASSUME NEW c, NEW D, NEW R, NEW read, NEW e, NEW E, NEW S,
         Done(c, D, R, read), E = D \cup {e}, c \in S \/ S = R
  PROVE  Done(c, E, S, read)
<1>1. From(read, E)
  BY FromMore DEF Done
<1> QED  BY <1>1 DEF Done

LEMMA EditInv ==
  ASSUME AssetsInv, NEW b \in Bodies \cup {None}, Effect(b) PROVE AssetsInv'
<1>1. /\ edits' = edits + 1 /\ edits \in Nat /\ edits' \in 0 .. MaxEdits
      /\ UNCHANGED <<cache, pc, call>>
      /\ \A c \in Calls : pc[c] # "idle" => during'[c] = during[c] \cup {b}
      /\ during' \in [Calls -> SUBSET (Bodies \cup {None})]
      /\ Len(inodes) \in Nat /\ Len(inodes') \in Nat
  BY AssetsAssumption, LenProperties DEF Effect, Edit, AssetsInv, TypeOK
<1>2. /\ cache.stamp \in 0 .. edits
      /\ \A c \in Calls : /\ call[c].stamp \in 0 .. edits
                          /\ call[c].file \in 0 .. Len(inodes)
                          /\ call[c].hashed \in 0 .. Len(inodes)
  BY DEF AssetsInv, TypeOK
<1>3. /\ Body(path)' = b
      /\ path' # 0 => inodes'[path'].stamp = edits + 1
      /\ \A i \in 1 .. Len(inodes) : Body(i)' = Body(i) \/ Body(i)' = b
      /\ \A c \in Calls : pc[c] # "idle" =>
           \/ rewritten' = rewritten /\ \A i \in 1 .. Len(inodes) : Body(i)' = Body(i)
           \/ c \in rewritten'
  BY <1>1 DEF Body, Effect
<1>4. TypeOK'
  <2>1. call' \in [Calls -> [v : Seq(Bodies), file : 0 .. Len(inodes'), stamp : 0 .. edits',
                            hashed : 0 .. Len(inodes'), hash : Seq(Bodies),
                            immutable : BOOLEAN, sent : Seq(Bodies)]]
    BY <1>1 DEF Effect, AssetsInv, TypeOK
  <2>2. cache' \in [stamp : 0 .. edits', hash : Seq(Bodies)]
    BY <1>1 DEF AssetsInv, TypeOK
  <2>3. rewritten' \subseteq Calls
    BY DEF Effect, AssetsInv, TypeOK
  <2> QED  BY <1>1, <2>1, <2>2, <2>3 DEF Effect, AssetsInv, TypeOK
<1>5. CacheHonest'
  BY <1>1, <1>2, <1>3 DEF CacheHonest
<1>6. Stamps'
  BY <1>1, <1>2, <1>3 DEF Stamps
<1>7. ASSUME NEW c \in Calls, pc[c] # "idle", NEW read, NEW i \in 1 .. Len(inodes),
             Partial(c, during[c], rewritten, read, Body(i))
      PROVE  Partial(c, during'[c], rewritten', read, Body(i)')
  <2>1. during'[c] = during[c] \cup {b}
    BY <1>1, <1>7
  <2>2. Body(i)' = Body(i) \/ Body(i)' = b
    BY <1>3
  <2>3. c \in rewritten' \/ (Body(i)' = Body(i) /\ rewritten' = rewritten)
    BY <1>3, <1>7
  <2> QED  BY <1>7, <2>1, <2>2, <2>3, PartialEdit
<1>8. ASSUME NEW c \in Calls, pc[c] # "idle", NEW read, Done(c, during[c], rewritten, read)
      PROVE  Done(c, during'[c], rewritten', read)
  <2>1. during'[c] = during[c] \cup {b} /\ (c \in rewritten' \/ rewritten' = rewritten)
    BY <1>1, <1>3, <1>8
  <2> QED  BY <1>8, <2>1, DoneEdit
<1>9. Own'
  <2> SUFFICES ASSUME NEW c \in Calls, pc[c] # "idle"
               PROVE  OwnOf(c)'
    BY <1>1 DEF Own, OwnOf
  <2>0. /\ OwnOf(c)
        /\ call[c].file # 0 => call[c].file \in 1 .. Len(inodes)
        /\ call[c].hashed # 0 => call[c].hashed \in 1 .. Len(inodes)
    BY <1>1, <1>2 DEF AssetsInv, Own
  <2>1. call[c].file # 0 =>
          Partial(c, during'[c], rewritten', call[c].sent, Body(call[c].file)')
    BY <1>1, <1>7, <2>0 DEF OwnOf, Body
  <2>2. pc[c] = "copy" =>
          call[c].hashed # 0
          /\ Partial(c, during'[c], rewritten', call[c].hash, Body(call[c].hashed)')
    BY <1>1, <1>7, <2>0 DEF OwnOf, Body
  <2>3. /\ pc[c] \in {"store", "decide", "url"} =>
             Done(c, during'[c], rewritten', call[c].hash)
        /\ call[c].immutable => Done(c, during'[c], rewritten', call[c].v)
    BY <1>8, <2>0 DEF OwnOf
  <2> QED  BY <1>1, <1>3, <2>0, <2>1, <2>2, <2>3 DEF OwnOf
<1>10. Shared'
  <2> SUFFICES ASSUME NEW c \in Calls, NEW d \in Calls, pc[c] = "look"
               PROVE  SharedOf(c, d)'
    BY <1>1 DEF Shared, SharedOf
  <2>0. SharedOf(c, d) /\ pc[c] # "idle"
    BY DEF AssetsInv, Shared
  <2>1. pc[d] = "copy" => call[d].hashed \in 1 .. Len(inodes)
    BY <1>1, <1>2 DEF AssetsInv, Own, OwnOf
  <2>2. (pc[d] = "copy" /\ call[d].stamp = call[c].stamp) =>
          Partial(c, during'[c], rewritten', call[d].hash, Body(call[d].hashed)')
    BY <1>1, <1>7, <2>0, <2>1 DEF SharedOf, Body
  <2>3. /\ cache.stamp = call[c].stamp => Done(c, during'[c], rewritten', cache.hash)
        /\ (pc[d] = "store" /\ call[d].stamp = call[c].stamp) =>
             Done(c, during'[c], rewritten', call[d].hash)
    BY <1>8, <2>0 DEF SharedOf
  <2> QED  BY <1>1, <2>0, <2>2, <2>3 DEF SharedOf
<1> QED  BY <1>4, <1>5, <1>6, <1>9, <1>10 DEF AssetsInv

LEMMA ReplaceInv == ASSUME NEW b \in Bodies, AssetsInv, Replace(b) PROVE AssetsInv'
<1> DEFINE S == [body : Bodies, stamp : 1 .. edits + 1]
           e == [body |-> b, stamp |-> edits + 1]
<1>1. edits \in Nat /\ inodes \in Seq(S) /\ e \in S
  <2>1. edits \in Nat /\ inodes \in Seq([body : Bodies, stamp : 1 .. edits])
    BY AssetsAssumption DEF AssetsInv, TypeOK
  <2>2. [body : Bodies, stamp : 1 .. edits] \subseteq S
    BY <2>1
  <2>3. inodes \in Seq(S)
    BY <2>1, <2>2, SeqMonotonic, Zenon
  <2>4. e \in S
    BY <2>1
  <2> QED  BY <2>1, <2>3, <2>4
<1>2. inodes' = Append(inodes, e) /\ path' = Len(inodes) + 1 /\ Edit(b)
  BY DEF Replace
<1> HIDE DEF S
<1>3. /\ inodes' \in Seq(S) /\ Len(inodes) \in Nat /\ Len(inodes') = Len(inodes) + 1
      /\ inodes'[Len(inodes) + 1] = e
      /\ \A i \in 1 .. Len(inodes) : inodes'[i] = inodes[i]
  BY <1>1, <1>2, AppendProperties, LenProperties
<1>4. Effect(b)
  BY <1>1, <1>2, <1>3 DEF Effect, S, Replace
<1> QED  BY <1>4, EditInv

LEMMA RewriteInv == ASSUME NEW b \in Bodies, AssetsInv, Rewrite(b) PROVE AssetsInv'
<1> DEFINE S == [body : Bodies, stamp : 1 .. edits + 1]
           e == [body |-> b, stamp |-> edits + 1]
<1>1. edits \in Nat /\ inodes \in Seq(S) /\ e \in S
  <2>1. edits \in Nat /\ inodes \in Seq([body : Bodies, stamp : 1 .. edits])
    BY AssetsAssumption DEF AssetsInv, TypeOK
  <2>2. [body : Bodies, stamp : 1 .. edits] \subseteq S
    BY <2>1
  <2>3. inodes \in Seq(S)
    BY <2>1, <2>2, SeqMonotonic, Zenon
  <2>4. e \in S
    BY <2>1
  <2> QED  BY <2>1, <2>3, <2>4
<1>2. inodes' = [inodes EXCEPT ![path] = e] /\ path' = path /\ Edit(b)
  BY DEF Rewrite
<1>3. path \in 1 .. Len(inodes) /\ Len(inodes) \in Nat
  BY <1>1, LenProperties DEF Rewrite, AssetsInv, TypeOK
<1> HIDE DEF S
<1>4. /\ inodes' \in Seq(S) /\ Len(inodes') = Len(inodes)
      /\ \A i \in 1 .. Len(inodes) : inodes'[i] = IF i = path THEN e ELSE inodes[i]
  BY <1>1, <1>2, <1>3, ExceptSeq
<1>5. Effect(b)
  BY <1>1, <1>2, <1>3, <1>4 DEF Effect, S, Rewrite
<1> QED  BY <1>5, EditInv

LEMMA RemoveInv == ASSUME AssetsInv, Remove PROVE AssetsInv'
<1>1. edits \in Nat /\ inodes \in Seq([body : Bodies, stamp : 1 .. edits])
  BY AssetsAssumption DEF AssetsInv, TypeOK
<1>2. [body : Bodies, stamp : 1 .. edits] \subseteq [body : Bodies, stamp : 1 .. edits + 1]
  BY <1>1
<1>3. inodes \in Seq([body : Bodies, stamp : 1 .. edits + 1]) /\ Len(inodes) \in Nat
  BY <1>1, <1>2, SeqMonotonic, LenProperties
<1>4. Edit(None) /\ path' = 0 /\ inodes' = inodes
  BY DEF Remove
<1>5. Effect(None)
  BY <1>1, <1>3, <1>4 DEF Effect, Remove
<1> QED  BY <1>5, EditInv

-----------------------------------------------------------------------------
(* The steps of the calls.                                                 *)

\* A file that is there has a body and a stamp.
LEMMA InodeType ==
  ASSUME TypeOK, NEW i \in 0 .. Len(inodes), i # 0
  PROVE  Body(i) \in Bodies /\ inodes[i].stamp \in 1 .. edits
<1>1. inodes \in Seq([body : Bodies, stamp : 1 .. edits])
  BY DEF TypeOK
<1>2. i \in 1 .. Len(inodes)
  BY <1>1, LenProperties
<1>3. inodes[i] \in [body : Bodies, stamp : 1 .. edits]
  BY <1>1, <1>2, ElementOfSeq
<1> QED  BY <1>3 DEF Body

\* The type invariant after a step of a call.
LEMMA StepType ==
  ASSUME TypeOK, NEW c \in Calls, NEW from, NEW to \in Places, NEW after \in CallRecords,
         to \in {"send", "served"} => after.file # 0,
         Step(c, from, to, after),
         cache' \in [stamp : 0 .. edits, hash : Seq(Bodies)]
  PROVE  /\ TypeOK'
         /\ pc[c] = from /\ pc'[c] = to /\ call'[c] = after
         /\ \A d \in Calls \ {c} : pc'[d] = pc[d] /\ call'[d] = call[d]
         /\ UNCHANGED <<edits, inodes, path, during, rewritten>>
BY DEF TypeOK, Step, files, history, CallRecords, Places

\* A step that leaves the cache alone and ends neither at the cache nor with a
\* hash in hand keeps what the calls know of each other.
LEMMA StepShared ==
  ASSUME AssetsInv, NEW c \in Calls, NEW to, UNCHANGED cache,
         pc'[c] = to /\ to \notin {"look", "copy", "store"},
         \A d \in Calls \ {c} : pc'[d] = pc[d] /\ call'[d] = call[d],
         UNCHANGED <<edits, inodes, path, during, rewritten>>
  PROVE  CacheHonest' /\ Stamps' /\ Shared'
<1>1. CacheHonest' /\ Stamps'
  BY DEF AssetsInv, CacheHonest, Stamps, Body
<1>2. Shared'
  BY DEF AssetsInv, Shared, SharedOf, Body
<1> QED  BY <1>1, <1>2

LEMMA StepOwn ==
  ASSUME Own, NEW c \in Calls, OwnOf(c)',
         \A d \in Calls \ {c} : pc'[d] = pc[d] /\ call'[d] = call[d],
         UNCHANGED <<edits, inodes, path, during, rewritten>>
  PROVE  Own'
BY DEF Own, OwnOf, Body

\* A call that begins or ends changes nothing that another one knows.
LEMMA OthersKeep ==
  ASSUME AssetsInv, NEW c \in Calls, pc'[c] \in {"idle", "stat", "open"},
         \A d \in Calls \ {c} : pc'[d] = pc[d] /\ call'[d] = call[d] /\ during'[d] = during[d],
         rewritten' = rewritten \ {c}, UNCHANGED <<edits, inodes, path, cache>>
  PROVE  /\ CacheHonest' /\ Stamps' /\ Shared'
         /\ \A d \in Calls \ {c} : OwnOf(d)'
<1>1. \A i : Body(i)' = Body(i)
  BY DEF Body
<1>2. CacheHonest'
  BY DEF AssetsInv, CacheHonest, Body
<1>3. Stamps'
  <2> SUFFICES ASSUME NEW d \in Calls, path # 0, call'[d].stamp = inodes[path].stamp
               PROVE  /\ pc'[d] = "copy" => call'[d].hashed = path
                      /\ pc'[d] \in {"copy", "store"} => From(call'[d].hash, {Body(path)})
    BY DEF Stamps, Body
  <2>1. CASE d = c
    BY <2>1
  <2>2. CASE d # c
    BY <2>2 DEF AssetsInv, Stamps
  <2> QED  BY <2>1, <2>2
<1>4. ASSUME NEW d \in Calls, d # c, NEW read
      PROVE  /\ Done(d, during'[d], rewritten', read) <=> Done(d, during[d], rewritten, read)
             /\ \A b : Partial(d, during'[d], rewritten', read, b)
                        <=> Partial(d, during[d], rewritten, read, b)
  <2>1. during'[d] = during[d] /\ (d \in rewritten' <=> d \in rewritten)
    BY <1>4
  <2> QED  BY <2>1 DEF Done, Partial
<1>5. ASSUME NEW d \in Calls \ {c} PROVE OwnOf(d)'
  <2>1. OwnOf(d) /\ pc'[d] = pc[d] /\ call'[d] = call[d] /\ during'[d] = during[d]
    BY <1>5 DEF AssetsInv, Own
  <2>2. /\ Body(path)' = Body(path) /\ Body(call[d].file)' = Body(call'[d].file)
        /\ Body(call[d].hashed)' = Body(call'[d].hashed)
    BY DEF Body
  <2> QED  BY <1>4, <2>1, <2>2 DEF OwnOf, Body
<1>6. ASSUME NEW d \in Calls, NEW e \in Calls PROVE SharedOf(d, e)'
  <2>1. CASE d = c
    BY <2>1 DEF SharedOf
  <2>2. CASE d # c /\ e = c
    <3>1. SharedOf(d, e) /\ pc'[d] = pc[d] /\ call'[d] = call[d]
      BY <2>2 DEF AssetsInv, Shared
    <3> QED  BY <1>4, <2>2, <3>1 DEF SharedOf
  <2>3. CASE d # c /\ e # c
    <3>1. /\ SharedOf(d, e) /\ pc'[d] = pc[d] /\ call'[d] = call[d]
          /\ pc'[e] = pc[e] /\ call'[e] = call[e]
      BY <2>3 DEF AssetsInv, Shared
    <3> QED  BY <1>4, <2>3, <3>1 DEF SharedOf, Body
  <2> QED  BY <2>1, <2>2, <2>3
<1> QED  BY <1>2, <1>3, <1>5, <1>6 DEF Shared

LEMMA BeginInv ==
  ASSUME AssetsInv, NEW c \in Calls, NEW to \in {"stat", "open"}, Begin(c, to)
  PROVE  AssetsInv'
<1>1. /\ pc'[c] = to /\ call'[c] = Fresh /\ during'[c] = {Body(path)}
      /\ \A d \in Calls \ {c} : pc'[d] = pc[d] /\ call'[d] = call[d] /\ during'[d] = during[d]
      /\ rewritten' = rewritten \ {c} /\ UNCHANGED <<edits, inodes, path, cache>>
  BY DEF Begin, files, AssetsInv, TypeOK
<1>2. TypeOK'
  <2>1. Body(path) \in Bodies \cup {None}
    BY InodeType DEF AssetsInv, TypeOK, Body
  <2>2. Fresh \in CallRecords
    BY FreshType DEF AssetsInv
  <2> QED  BY <2>1, <2>2 DEF Begin, files, AssetsInv, TypeOK, CallRecords
<1>3. OwnOf(c)'
  BY <1>1 DEF OwnOf, Body, Fresh
<1> QED  BY <1>1, <1>2, <1>3, OthersKeep DEF AssetsInv, Own

LEMMA EndInv == ASSUME AssetsInv, NEW c \in Calls, End(c) PROVE AssetsInv'
<1>1. /\ pc'[c] = "idle"
      /\ \A d \in Calls \ {c} : pc'[d] = pc[d] /\ call'[d] = call[d] /\ during'[d] = during[d]
      /\ rewritten' = rewritten \ {c} /\ UNCHANGED <<edits, inodes, path, cache>>
  BY DEF End, files, AssetsInv, TypeOK
<1>2. TypeOK'
  <2>1. Fresh \in CallRecords
    BY FreshType DEF AssetsInv
  <2> QED  BY <2>1 DEF End, files, AssetsInv, TypeOK, CallRecords
<1>3. OwnOf(c)'
  BY <1>1 DEF OwnOf
<1> QED  BY <1>1, <1>2, <1>3, OthersKeep DEF AssetsInv, Own

\* The steps that leave the cache alone and do not pass through it.
LEMMA PlainStep ==
  ASSUME AssetsInv, NEW c \in Calls, NEW from \in Places \ {"idle"},
         NEW to \in Places \ {"idle", "look", "copy", "store"}, NEW after \in CallRecords,
         Step(c, from, to, after), UNCHANGED cache,
         to \in {"send", "served"} => after.file # 0,
         to \notin {"send", "served"} => after.sent = <<>>,
         after.file # 0 => Partial(c, during[c], rewritten, after.sent, Body(after.file)),
         to \in {"decide", "url"} => Done(c, during[c], rewritten, after.hash),
         after.immutable => Done(c, during[c], rewritten, after.v),
         to = "served" => Len(after.sent) = Pieces
  PROVE  AssetsInv'
<1>1. /\ TypeOK' /\ pc[c] = from /\ pc'[c] = to /\ call'[c] = after
      /\ \A d \in Calls \ {c} : pc'[d] = pc[d] /\ call'[d] = call[d]
      /\ UNCHANGED <<edits, inodes, path, during, rewritten>>
  <2>1. cache' \in [stamp : 0 .. edits, hash : Seq(Bodies)] /\ TypeOK
    BY DEF AssetsInv, TypeOK
  <2> QED  BY <2>1, StepType
<1>2. CacheHonest' /\ Stamps' /\ Shared'
  BY <1>1, StepShared
<1>3. OwnOf(c)'
  BY <1>1 DEF OwnOf, AssetsInv, Own, Body
<1>4. Own'
  BY <1>1, <1>3, StepOwn DEF AssetsInv
<1> QED  BY <1>1, <1>2, <1>4 DEF AssetsInv

\* Facts about the call that takes a step.
LEMMA CallType ==
  ASSUME AssetsInv, NEW c \in Calls, pc[c] # "idle"
  PROVE  /\ call[c] \in CallRecords /\ pc[c] \in Places /\ OwnOf(c)
         /\ path \in 0 .. Len(inodes)
         /\ cache \in [stamp : 0 .. edits, hash : Seq(Bodies)]
BY DEF AssetsInv, Own, TypeOK, CallRecords, Places

\* Whatever fails, nothing is left of the call but its error.
LEMMA FailInv ==
  ASSUME AssetsInv, NEW c \in Calls, NEW from \in Places \ {"idle"},
         NEW to \in {"plain", "notfound", "aborted"}, Step(c, from, to, Fresh),
         UNCHANGED cache
  PROVE  AssetsInv'
<1>1. Fresh \in CallRecords /\ to \in Places
  BY FreshType DEF AssetsInv, Places
<1>2. Fresh.file = 0 /\ Fresh.sent = <<>> /\ Fresh.immutable = FALSE
  BY DEF Fresh
<1> QED  BY <1>1, <1>2, PlainStep

LEMMA HashFails ==
  ASSUME AssetsInv, NEW c \in Calls, NEW from \in {"stat", "reopen", "copy"},
         Fail(c, from), UNCHANGED cache
  PROVE  AssetsInv'
BY FailInv DEF Fail, Places

LEMMA OpenInv == ASSUME AssetsInv, NEW c \in Calls, Open(c) PROVE AssetsInv'
<1>1. /\ call[c] \in CallRecords /\ pc[c] = "open" /\ cache' = cache
      /\ path \in 0 .. Len(inodes) /\ OwnOf(c) /\ "open" \in Places /\ "stat" \in Places
  BY CallType DEF Open, Step, Places
<1>2. CASE Step(c, "open", "notfound", Fresh)
  BY <1>1, <1>2, FailInv
<1>3. CASE path # 0 /\ Step(c, "open", "stat", [call[c] EXCEPT !.file = path])
  <2> DEFINE after == [call[c] EXCEPT !.file = path]
  <2>1. Step(c, "open", "stat", after)
    BY <1>3
  <2>2. after \in CallRecords /\ after.file = path /\ after.v = call[c].v
        /\ after.immutable = call[c].immutable /\ after.sent = call[c].sent
    BY <1>1 DEF CallRecords
  <2> HIDE DEF after
  <2>3. Partial(c, during[c], rewritten, after.sent, Body(path))
    <3>1. Body(path) \in during[c] /\ call[c].sent = <<>>
      BY <1>1 DEF OwnOf
    <3> QED  BY <2>2, <3>1, NothingRead DEF Partial
  <2>4. after.immutable => Done(c, during[c], rewritten, after.v)
    BY <1>1, <2>2 DEF OwnOf
  <2>5. after.sent = <<>>
    BY <1>1, <2>2 DEF OwnOf
  <2> QED  BY <1>1, <1>3, <2>1, <2>2, <2>3, <2>4, <2>5, PlainStep
<1> QED  BY <1>2, <1>3 DEF Open

LEMMA StatInv == ASSUME AssetsInv, NEW c \in Calls, Stat(c) PROVE AssetsInv'
<1> DEFINE after == [call[c] EXCEPT !.stamp = inodes[path].stamp]
<1>1. CASE Fail(c, "stat")
  BY <1>1, HashFails DEF Stat
<1>2. CASE path # 0 /\ Step(c, "stat", "look", after)
  <2>1. Step(c, "stat", "look", after) /\ cache' = cache /\ pc[c] = "stat"
    BY <1>2 DEF Stat, Step
  <2>2. /\ inodes[path].stamp \in 1 .. edits /\ call[c] \in CallRecords /\ edits \in Nat
        /\ Body(path) \in Bodies /\ Body(path) \in during[c] /\ OwnOf(c)
    <3>1. call[c] \in CallRecords /\ OwnOf(c) /\ path \in 0 .. Len(inodes) /\ TypeOK
      BY <2>1, CallType DEF AssetsInv
    <3>2. inodes[path].stamp \in 1 .. edits /\ Body(path) \in Bodies
      BY <1>2, <3>1, InodeType
    <3> QED  BY <2>1, <3>1, <3>2, AssetsAssumption DEF TypeOK, OwnOf
  <2>3. /\ after \in CallRecords /\ after.stamp = inodes[path].stamp /\ after.stamp # 0
        /\ after.v = call[c].v /\ after.immutable = call[c].immutable
        /\ after.file = call[c].file /\ after.sent = call[c].sent
    <3>1. inodes[path].stamp \in 0 .. edits /\ inodes[path].stamp # 0
      BY <2>2
    <3>2. ASSUME NEW stamp \in 0 .. edits
          PROVE  [call[c] EXCEPT !.stamp = stamp] \in CallRecords
      BY <2>2 DEF CallRecords
    <3>3. after \in CallRecords
      BY <3>1, <3>2
    <3> QED  BY <2>2, <3>1, <3>3 DEF CallRecords
  <2> HIDE DEF after
  <2>4. /\ TypeOK' /\ pc'[c] = "look" /\ call'[c] = after
        /\ \A d \in Calls \ {c} : pc'[d] = pc[d] /\ call'[d] = call[d]
        /\ UNCHANGED <<edits, inodes, path, during, rewritten, cache>>
    <3>1. cache' \in [stamp : 0 .. edits, hash : Seq(Bodies)] /\ TypeOK
      BY <2>1 DEF AssetsInv, TypeOK
    <3>2. "look" \in Places /\ "look" \notin {"send", "served"}
      BY DEF Places
    <3> QED  BY <2>1, <2>3, <3>1, <3>2, StepType
  <2>5. CacheHonest' /\ Stamps'
    BY <2>4 DEF AssetsInv, CacheHonest, Stamps, Body
  <2>6. Shared'
    <3>1. cache.stamp = after.stamp => Done(c, during[c], rewritten, cache.hash)
      BY <1>2, <2>2, <2>3, WholeDone DEF AssetsInv, CacheHonest
    <3>2. ASSUME NEW d \in Calls, call[d].stamp = after.stamp
          PROVE  /\ pc[d] = "copy" =>
                      Partial(c, during[c], rewritten, call[d].hash, Body(call[d].hashed))
                 /\ pc[d] = "store" => Done(c, during[c], rewritten, call[d].hash)
      <4>1. /\ pc[d] = "copy" => call[d].hashed = path
            /\ pc[d] \in {"copy", "store"} => From(call[d].hash, {Body(path)})
        BY <1>2, <2>3, <3>2 DEF AssetsInv, Stamps
      <4>2. pc[d] \in {"copy", "store"} => From(call[d].hash, during[c])
        BY <2>2, <4>1, FromMore
      <4>3. pc[d] = "store" => Len(call[d].hash) = Pieces
        BY DEF AssetsInv, Own, OwnOf, Done
      <4> QED  BY <2>2, <4>1, <4>2, <4>3 DEF Partial, Done
    <3>3. ASSUME NEW d \in Calls PROVE SharedOf(c, d)'
      BY <2>3, <2>4, <3>1, <3>2 DEF SharedOf, Body
    <3>4. ASSUME NEW d \in Calls \ {c}, NEW e \in Calls PROVE SharedOf(d, e)'
      BY <2>4 DEF AssetsInv, Shared, SharedOf, Body
    <3> QED  BY <3>3, <3>4 DEF Shared
  <2>7. OwnOf(c)'
    BY <2>1, <2>2, <2>3, <2>4 DEF OwnOf, Body
  <2> QED  BY <2>4, <2>5, <2>6, <2>7, StepOwn DEF AssetsInv
<1> QED  BY <1>1, <1>2 DEF Stat

LEMMA LookInv == ASSUME AssetsInv, NEW c \in Calls, Look(c) PROVE AssetsInv'
<1>1. /\ call[c] \in CallRecords /\ pc[c] = "look" /\ cache' = cache /\ OwnOf(c)
      /\ cache.hash \in Seq(Bodies) /\ {"look", "decide", "reopen"} \subseteq Places
  BY CallType DEF Look, Step, Places
<1>2. CASE cache.stamp = call[c].stamp
  <2> DEFINE after == [call[c] EXCEPT !.hash = cache.hash]
  <2>1. Step(c, "look", "decide", after)
    BY <1>2 DEF Look
  <2>2. after \in CallRecords /\ after.file = call[c].file /\ after.v = call[c].v
        /\ after.immutable = call[c].immutable /\ after.hash = cache.hash
        /\ after.sent = call[c].sent
    BY <1>1 DEF CallRecords
  <2> HIDE DEF after
  <2>3. Done(c, during[c], rewritten, cache.hash)
    BY <1>1, <1>2 DEF AssetsInv, Shared, SharedOf
  <2> QED  BY <1>1, <2>1, <2>2, <2>3, PlainStep DEF OwnOf
<1>3. CASE cache.stamp # call[c].stamp
  <2>1. Step(c, "look", "reopen", call[c])
    BY <1>3 DEF Look
  <2> QED  BY <1>1, <2>1, PlainStep DEF OwnOf
<1> QED  BY <1>2, <1>3

LEMMA ReopenInv == ASSUME AssetsInv, NEW c \in Calls, Reopen(c) PROVE AssetsInv'
<1> DEFINE after == [call[c] EXCEPT !.hashed = path, !.hash = <<>>]
<1>1. CASE Fail(c, "reopen")
  BY <1>1, HashFails DEF Reopen
<1>2. CASE path # 0 /\ Step(c, "reopen", "copy", after)
  <2>1. Step(c, "reopen", "copy", after) /\ cache' = cache /\ pc[c] = "reopen"
    BY <1>2 DEF Reopen, Step
  <2>2. path \in 0 .. Len(inodes) /\ call[c] \in CallRecords /\ OwnOf(c)
    BY <2>1, CallType
  <2>3. /\ after \in CallRecords /\ after.hashed = path /\ after.hash = <<>>
        /\ after.v = call[c].v /\ after.immutable = call[c].immutable
        /\ after.file = call[c].file /\ after.sent = call[c].sent
        /\ after.stamp = call[c].stamp
    BY <2>2, NothingRead DEF CallRecords
  <2> HIDE DEF after
  <2>4. /\ TypeOK' /\ pc'[c] = "copy" /\ call'[c] = after
        /\ \A d \in Calls \ {c} : pc'[d] = pc[d] /\ call'[d] = call[d]
        /\ UNCHANGED <<edits, inodes, path, during, rewritten, cache>>
    <3>1. cache' \in [stamp : 0 .. edits, hash : Seq(Bodies)] /\ TypeOK
      BY <2>1 DEF AssetsInv, TypeOK
    <3>2. "copy" \in Places /\ "copy" \notin {"send", "served"}
      BY DEF Places
    <3> QED  BY <2>1, <2>3, <3>1, <3>2, StepType
  <2>5. ASSUME NEW d \in Calls, pc[d] # "idle"
        PROVE  Partial(d, during[d], rewritten, <<>>, Body(path))
    BY <2>5, NothingRead DEF AssetsInv, Own, OwnOf, Partial
  <2>6. CacheHonest' /\ Stamps'
    BY <2>3, <2>4, NothingRead DEF AssetsInv, CacheHonest, Stamps, Body
  <2>7. Shared'
    <3>1. ASSUME NEW d \in Calls PROVE SharedOf(d, c)'
      BY <2>3, <2>4, <2>5 DEF AssetsInv, Shared, SharedOf, Body
    <3>2. ASSUME NEW d \in Calls, NEW e \in Calls \ {c} PROVE SharedOf(d, e)'
      BY <2>3, <2>4 DEF AssetsInv, Shared, SharedOf, Body
    <3> QED  BY <3>1, <3>2 DEF Shared
  <2>8. OwnOf(c)'
    BY <1>2, <2>1, <2>2, <2>3, <2>4, <2>5 DEF OwnOf, Body
  <2> QED  BY <2>4, <2>6, <2>7, <2>8, StepOwn DEF AssetsInv
<1> QED  BY <1>1, <1>2 DEF Reopen

LEMMA CopyInv == ASSUME AssetsInv, NEW c \in Calls, Copy(c) PROVE AssetsInv'
<1> DEFINE read == Append(call[c].hash, Body(call[c].hashed))
           to == IF Len(read) = Pieces THEN "store" ELSE "copy"
           after == [call[c] EXCEPT !.hash = read]
<1>1. CASE Fail(c, "copy")
  BY <1>1, HashFails DEF Copy
<1>2. CASE Step(c, "copy", to, after)
  <2>1. Step(c, "copy", to, after) /\ cache' = cache /\ pc[c] = "copy"
    BY <1>2 DEF Copy, Step
  <2>2. /\ call[c] \in CallRecords /\ OwnOf(c)
        /\ call[c].hashed \in 0 .. Len(inodes) /\ call[c].hashed # 0
    BY <2>1, CallType DEF OwnOf, CallRecords
  <2>3. Body(call[c].hashed) \in Bodies /\ call[c].hash \in Seq(Bodies)
    BY <2>2, InodeType DEF AssetsInv, CallRecords
  <2>4. /\ read \in Seq(Bodies)
        /\ \A D : From(call[c].hash, D) /\ Body(call[c].hashed) \in D => From(read, D)
    BY <2>3, OneMore
  <2>5. /\ to \in {"copy", "store"} /\ to \in Places
        /\ to = "store" => Len(read) = Pieces
    BY DEF Places
  <2> HIDE DEF read, to
  <2>6. /\ after \in CallRecords /\ after.hash = read /\ after.hashed = call[c].hashed
        /\ after.v = call[c].v /\ after.immutable = call[c].immutable
        /\ after.file = call[c].file /\ after.sent = call[c].sent
        /\ after.stamp = call[c].stamp
    BY <2>2, <2>4 DEF CallRecords
  <2> HIDE DEF after
  <2>7. /\ TypeOK' /\ pc'[c] = to /\ call'[c] = after
        /\ \A d \in Calls \ {c} : pc'[d] = pc[d] /\ call'[d] = call[d]
        /\ UNCHANGED <<edits, inodes, path, during, rewritten, cache>>
    <3>1. cache' \in [stamp : 0 .. edits, hash : Seq(Bodies)] /\ TypeOK
      BY <2>1 DEF AssetsInv, TypeOK
    <3> QED  BY <2>1, <2>5, <2>6, <3>1, StepType
  <2>8. ASSUME NEW d \in Calls,
               Partial(d, during[d], rewritten, call[c].hash, Body(call[c].hashed))
        PROVE  /\ Partial(d, during[d], rewritten, read, Body(call[c].hashed))
               /\ to = "store" => Done(d, during[d], rewritten, read)
    BY <2>4, <2>5, <2>8 DEF Partial, Done
  <2>9. CacheHonest' /\ Stamps'
    <3>1. (path # 0 /\ call[c].stamp = inodes[path].stamp) =>
            call[c].hashed = path /\ From(read, {Body(path)})
      BY <2>1, <2>4 DEF AssetsInv, Stamps
    <3> QED  BY <2>5, <2>6, <2>7, <3>1 DEF AssetsInv, CacheHonest, Stamps, Body
  <2>10. Shared'
    <3>1. ASSUME NEW d \in Calls PROVE SharedOf(d, c)'
      <4>1. SharedOf(d, c)
        BY DEF AssetsInv, Shared
      <4>2. (pc[d] = "look" /\ call[c].stamp = call[d].stamp) =>
              /\ Partial(d, during[d], rewritten, read, Body(call[c].hashed))
              /\ to = "store" => Done(d, during[d], rewritten, read)
        BY <2>1, <2>8, <4>1 DEF SharedOf
      <4> QED  BY <2>1, <2>5, <2>6, <2>7, <4>1, <4>2 DEF SharedOf, Body
    <3>2. ASSUME NEW d \in Calls, NEW e \in Calls \ {c} PROVE SharedOf(d, e)'
      BY <2>5, <2>6, <2>7 DEF AssetsInv, Shared, SharedOf, Body
    <3> QED  BY <3>1, <3>2 DEF Shared
  <2>11. OwnOf(c)'
    <3>1. /\ Partial(c, during[c], rewritten, read, Body(call[c].hashed))
          /\ to = "store" => Done(c, during[c], rewritten, read)
      BY <2>1, <2>2, <2>8 DEF OwnOf
    <3> QED  BY <2>1, <2>2, <2>5, <2>6, <2>7, <3>1 DEF OwnOf, Body
  <2> QED  BY <2>7, <2>9, <2>10, <2>11, StepOwn DEF AssetsInv
<1> QED  BY <1>1, <1>2 DEF Copy

LEMMA StoreInv == ASSUME AssetsInv, NEW c \in Calls, Store(c) PROVE AssetsInv'
<1>1. /\ Step(c, "store", "decide", call[c]) /\ pc[c] = "store"
      /\ cache' = [stamp |-> call[c].stamp, hash |-> call[c].hash]
  BY DEF Store, Step
<1>2. call[c] \in CallRecords /\ TypeOK /\ OwnOf(c)
  BY <1>1, CallType DEF AssetsInv
<1>3. /\ TypeOK' /\ pc'[c] = "decide" /\ call' = call
      /\ \A d \in Calls \ {c} : pc'[d] = pc[d] /\ call'[d] = call[d]
      /\ UNCHANGED <<edits, inodes, path, during, rewritten>>
  <2>1. "decide" \in Places /\ "decide" \notin {"send", "served"}
    BY DEF Places
  <2>2. cache' \in [stamp : 0 .. edits, hash : Seq(Bodies)]
    BY <1>1, <1>2 DEF CallRecords
  <2>3. call' = call
    BY <1>1, <1>2 DEF Step, TypeOK
  <2> QED  BY <1>1, <1>2, <2>1, <2>2, <2>3, StepType
<1>4. CacheHonest' /\ Stamps'
  <2>1. (path # 0 /\ call[c].stamp = inodes[path].stamp) => call[c].hash = Whole(Body(path))
    <3>1. Len(call[c].hash) = Pieces /\ call[c].hash \in Seq(Bodies)
      BY <1>1, <1>2 DEF OwnOf, Done, CallRecords
    <3>2. (path # 0 /\ call[c].stamp = inodes[path].stamp) => From(call[c].hash, {Body(path)})
      BY <1>1 DEF AssetsInv, Stamps
    <3> QED  BY <3>1, <3>2, WholeRead
  <2> QED  BY <1>1, <1>3, <2>1 DEF AssetsInv, CacheHonest, Stamps, Body
<1>5. Shared'
  <2> SUFFICES ASSUME NEW d \in Calls, NEW e \in Calls PROVE SharedOf(d, e)'
    BY DEF Shared
  <2>1. SharedOf(d, e) /\ SharedOf(d, c)
    BY DEF AssetsInv, Shared
  <2> QED  BY <1>1, <1>3, <2>1 DEF SharedOf, Body
<1>6. OwnOf(c)'
  BY <1>1, <1>2, <1>3 DEF OwnOf, Body
<1> QED  BY <1>3, <1>4, <1>5, <1>6, StepOwn DEF AssetsInv

LEMMA DecideInv == ASSUME AssetsInv, NEW c \in Calls, Decide(c) PROVE AssetsInv'
<1>1. /\ call[c] \in CallRecords /\ pc[c] = "decide" /\ cache' = cache /\ OwnOf(c)
      /\ {"decide", "url", "send"} \subseteq Places
  BY CallType DEF Decide, Step, Places
<1>2. CASE IsURL(c)
  <2>1. Step(c, "decide", "url", call[c])
    BY <1>2 DEF Decide
  <2> QED  BY <1>1, <2>1, PlainStep DEF OwnOf
<1>3. CASE ~IsURL(c)
  <2>1. PICK v \in Versions :
          Step(c, "decide", "send", [call[c] EXCEPT !.v = v, !.immutable = (v = call[c].hash)])
    BY <1>3 DEF Decide
  <2>2. v \in Seq(Bodies)
    BY SeqDef, NothingRead, AssetsAssumption DEF Versions, AssetsAssumption
  <2> DEFINE after == [call[c] EXCEPT !.v = v, !.immutable = (v = call[c].hash)]
  <2>3. /\ after \in CallRecords /\ after.file = call[c].file /\ after.v = v
        /\ after.immutable => v = call[c].hash
        /\ after.sent = call[c].sent
    BY <1>1, <2>2 DEF CallRecords
  <2>4. after.file # 0
    BY <1>3, <2>3 DEF IsURL
  <2>5. after.immutable => Done(c, during[c], rewritten, after.v)
    BY <1>1, <2>3 DEF OwnOf
  <2>6. Partial(c, during[c], rewritten, after.sent, Body(after.file))
    BY <1>1, <2>3, <2>4 DEF OwnOf
  <2>7. Step(c, "decide", "send", after)
    BY <2>1
  <2> HIDE DEF after
  <2> QED  BY <1>1, <2>3, <2>4, <2>5, <2>6, <2>7, PlainStep
<1> QED  BY <1>2, <1>3

LEMMA SendInv == ASSUME AssetsInv, NEW c \in Calls, Send(c) PROVE AssetsInv'
<1> DEFINE sent == Append(call[c].sent, Body(call[c].file))
           to == IF Len(sent) = Pieces THEN "served" ELSE "send"
           after == [call[c] EXCEPT !.sent = sent]
<1>1. /\ call[c] \in CallRecords /\ pc[c] = "send" /\ OwnOf(c) /\ cache' = cache
      /\ call[c].file # 0 /\ call[c].file \in 0 .. Len(inodes)
      /\ {"send", "served"} \subseteq Places
  <2>1. pc[c] = "send" /\ cache' = cache
    BY DEF Send, Step
  <2>2. call[c] \in CallRecords /\ OwnOf(c)
    BY <2>1, CallType
  <2> QED  BY <2>1, <2>2 DEF AssetsInv, TypeOK, Places, CallRecords
<1>2. CASE Step(c, "send", "aborted", Fresh)
  BY <1>1, <1>2, FailInv
<1>3. CASE Step(c, "send", to, after)
  <2>1. Body(call[c].file) \in Bodies /\ call[c].sent \in Seq(Bodies)
    BY <1>1, InodeType DEF AssetsInv, CallRecords
  <2>2. /\ sent \in Seq(Bodies)
        /\ \A D : From(call[c].sent, D) /\ Body(call[c].file) \in D => From(sent, D)
    BY <2>1, OneMore
  <2>3. to \in {"send", "served"} /\ (to = "served" => Len(sent) = Pieces)
    OBVIOUS
  <2> HIDE DEF sent, to
  <2>4. Partial(c, during[c], rewritten, sent, Body(call[c].file))
    BY <1>1, <2>2 DEF OwnOf, Partial
  <2>5. /\ after \in CallRecords /\ after.file = call[c].file /\ after.v = call[c].v
        /\ after.immutable = call[c].immutable /\ after.sent = sent
    BY <1>1, <2>2 DEF CallRecords
  <2>6. after.immutable => Done(c, during[c], rewritten, after.v)
    BY <1>1, <2>5 DEF OwnOf
  <2>7. Step(c, "send", to, after)
    BY <1>3
  <2> HIDE DEF after
  <2> QED  BY <1>1, <2>3, <2>4, <2>5, <2>6, <2>7, PlainStep
<1> QED  BY <1>2, <1>3 DEF Send

-----------------------------------------------------------------------------
LEMMA NextInv == AssetsInv /\ [Next]_vars => AssetsInv'
<1> SUFFICES ASSUME AssetsInv, [Next]_vars PROVE AssetsInv'
  OBVIOUS
<1>1. ASSUME NEW b \in Bodies, Replace(b) \/ Rewrite(b) PROVE AssetsInv'
  BY <1>1, ReplaceInv, RewriteInv
<1>2. CASE Remove
  BY <1>2, RemoveInv
<1>3. ASSUME NEW c \in Calls, BeginURL(c) \/ BeginServe(c) PROVE AssetsInv'
  BY <1>3, BeginInv DEF BeginURL, BeginServe
<1>4. ASSUME NEW c \in Calls, Open(c) \/ Stat(c) \/ Look(c) \/ Reopen(c) PROVE AssetsInv'
  BY <1>4, OpenInv, StatInv, LookInv, ReopenInv
<1>5. ASSUME NEW c \in Calls, Copy(c) \/ Store(c) \/ Decide(c) \/ Send(c) \/ End(c)
      PROVE  AssetsInv'
  BY <1>5, CopyInv, StoreInv, DecideInv, SendInv, EndInv
<1>6. CASE UNCHANGED vars
  BY <1>6 DEF vars, files, history, AssetsInv, TypeOK, CacheHonest, Stamps, Own, OwnOf,
              Shared, SharedOf, Body
<1> QED  BY <1>1, <1>2, <1>3, <1>4, <1>5, <1>6 DEF Next

LEMMA Invariance == Spec => []AssetsInv
BY InitInv, NextInv, PTL DEF Spec

\* Every variable of the cache, the directory and the calls keeps its type, and
\* no response is sent without an open file.
THEOREM TypeCorrect == Spec => []TypeOK
<1>1. AssetsInv => TypeOK
  BY DEF AssetsInv
<1> QED  BY <1>1, Invariance, PTL

\* A cache entry that matches the file on disk never holds another hash than
\* that of what is on disk, all of it (hash, assets.go:184-211).
THEOREM CacheIsHonest == Spec => []CacheHonest
<1>1. AssetsInv => CacheHonest
  BY DEF AssetsInv
<1> QED  BY <1>1, Invariance, PTL

\* URL only returns hashes of versions the file had while the page was being
\* rendered, though any of its calls may fail, and of one version, unless the
\* file was written in place during that render (assets.go:147-151, 213-221).
THEOREM UrlsAreCurrent == Spec => []UrlCurrent
<1>1. AssetsInv => UrlCurrent
  <2> SUFFICES ASSUME AssetsInv, NEW c \in Calls, pc[c] = "url"
               PROVE  Honest(c, call[c].hash)
    BY DEF UrlCurrent
  <2>1. Done(c, during[c], rewritten, call[c].hash) /\ call[c].hash \in Seq(Bodies)
    BY DEF AssetsInv, Own, OwnOf, TypeOK
  <2> QED  BY <2>1, DoneHonest DEF AssetsInv
<1> QED  BY <1>1, Invariance, PTL

\* ServeHTTP marks a response immutable only for a version the file had while
\* it was being answered, and sends such a version, though it reads the file piece
\* by piece; only a file written in place meanwhile gives a mixture of the versions
\* it had meanwhile (assets.go:229-264).
THEOREM ImmutableIsHonest == Spec => []ImmutableHonest
<1>1. AssetsInv => ImmutableHonest
  <2> SUFFICES ASSUME AssetsInv, NEW c \in Calls, pc[c] = "served"
               PROVE  /\ call[c].immutable => Honest(c, call[c].v)
                      /\ Honest(c, call[c].sent)
    BY DEF ImmutableHonest
  <2>1. call[c].v \in Seq(Bodies) /\ call[c].sent \in Seq(Bodies) /\ TypeOK
    BY DEF AssetsInv, TypeOK
  <2>2. OwnOf(c) /\ call[c].file # 0
    BY DEF AssetsInv, Own, TypeOK
  <2>3. Done(c, during[c], rewritten, call[c].sent)
    BY <2>2 DEF OwnOf, Partial, Done
  <2>4. call[c].immutable => Done(c, during[c], rewritten, call[c].v)
    BY <2>2 DEF OwnOf
  <2> QED  BY <2>1, <2>3, <2>4, DoneHonest
<1> QED  BY <1>1, Invariance, PTL
=============================================================================
