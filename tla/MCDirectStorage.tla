--------------------------- MODULE MCDirectStorage ---------------------------
(***************************************************************************)
(* An instance of DirectStorage for TLC.                                   *)
(***************************************************************************)
EXTENDS DirectStorage

Conf(count, size, stride, spheres) ==
    [batch_count |-> count, batch_size |-> size, stride |-> stride,
     spheres |-> spheres]

MCConfigs == {Conf(2, 1, 1, 3), Conf(1, 1, 1, 3), Conf(1, 1, 1, 2), Conf(1, 2, 1, 2),
              Conf(1, 2, 1, 3)}

Setup(config, implementation) ==
    [config |-> config, implementation |-> implementation]

\* Three batches in two slots and in one slot; a smaller data set with as many
\* spheres in a batch, but compressed; and the same one with larger batches.
MCSetups == {Setup(Conf(2, 1, 1, 3), "batches"), Setup(Conf(1, 1, 1, 3), "naive"),
             Setup(Conf(1, 1, 1, 2), "gdeflate"), Setup(Conf(1, 2, 1, 2), "gdeflate")}

\* One batch size, and another one for the same and for another data set.
MCStale == {Setup(Conf(1, 1, 1, 2), "gdeflate"), Setup(Conf(1, 2, 1, 3), "gdeflate"),
            Setup(Conf(1, 2, 1, 2), "gdeflate")}

\* Each implementation and each phase, but not each phase of each implementation.
MCFollowed == [batches |-> {2}, gdeflate |-> {1}, naive |-> {2, 3, 4}]
MCFrames == [batches |-> 1, gdeflate |-> 1, naive |-> 2]
=============================================================================
