--------------------------- MODULE StagingCache ---------------------------
(***************************************************************************)
(* stage_data of the Direct3D 12 streaming benchmarks: data sets are       *)
(* written to temporary files, once for each key of a cache that lives as  *)
(* long as the benchmark.  What a file contains is known by the shape of   *)
(* the data set and, for GDeflate, by the size of the compressed blocks.   *)
(***************************************************************************)
EXTENDS Integers

VARIABLES
    cache,    \* _staged_data: the entry of each key
    file      \* the file in use: _path, _batches and the properties of _data

stagingVars == <<cache, file>>

\* put: a new entry has a path, but default user data; nothing is written yet.
NewEntry == [complete |-> FALSE, stride |-> 0, spheres |-> 0, block |-> 0]

StagingInit == cache = <<>> /\ file = NewEntry

\* Variant: files of other batch sizes are used for GDeflate, too.
KeyWithoutBatchSize(c, gdeflate) ==
    [stride |-> c.stride, spheres |-> c.spheres, batch_size |-> IF gdeflate THEN 1 ELSE 0]

\* staging_key: the batch size matters only if the batches are compressed.
Key(c, gdeflate) ==
    [stride |-> c.stride, spheres |-> c.spheres,
     batch_size |-> IF gdeflate THEN c.batch_size ELSE 0]

IsCached(key) == key \in DOMAIN cache

\* The cache with the entry e for the key.
Put(key, e) ==
    [k \in DOMAIN cache \cup {key} |-> IF k = key THEN e ELSE cache[k]]

\* The staged file: gdeflate_compress cuts the data into blocks of a batch each.
Written(c, gdeflate) ==
    [complete |-> TRUE, stride |-> c.stride, spheres |-> c.spheres,
     block |-> IF gdeflate THEN c.batch_size ELSE 0]

\* The file that staging c ends up with.
Staged(c, gdeflate) ==
    IF IsCached(Key(c, gdeflate)) THEN cache[Key(c, gdeflate)] ELSE Written(c, gdeflate)

\* stage_data returns.
Stage(c, gdeflate) ==
    /\ file' = Staged(c, gdeflate)
    /\ cache' = IF IsCached(Key(c, gdeflate)) THEN cache
                ELSE Put(Key(c, gdeflate), Written(c, gdeflate))

\* Variant: the user data are stored when the entry is made.
StageFailsWithUserData(c, gdeflate) ==
    /\ ~IsCached(Key(c, gdeflate))
    /\ cache' = Put(Key(c, gdeflate), [Written(c, gdeflate) EXCEPT !.complete = FALSE])
    /\ UNCHANGED file

\* Loading, compressing or writing throws: the entry stays as put made it.
StageFails(c, gdeflate) ==
    /\ ~IsCached(Key(c, gdeflate))
    /\ cache' = Put(Key(c, gdeflate), NewEntry)
    /\ UNCHANGED file
=============================================================================
