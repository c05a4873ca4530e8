------------------------- MODULE MCSphereStreaming -------------------------
(***************************************************************************)
(* Instances of SphereStreaming for TLC.                                   *)
(***************************************************************************)
EXTENDS SphereStreaming

Conf(count, size, stride, spheres) ==
    [batch_count |-> count, batch_size |-> size, stride |-> stride,
     spheres |-> spheres]

\* Two batches a frame in two slots, one batch a frame in one slot; the last
\* two configurations differ in the stride only: reshape discards the heaps.
MCConfigs == {Conf(2, 2, 1, 3), Conf(1, 3, 1, 3), Conf(1, 3, 2, 3)}

\* Two data sets of spheres of the same size, with the same batches.
MCDataSets == {Conf(2, 2, 1, 5), Conf(2, 2, 1, 3)}

\* Two sizes of batches for the same data set: changing between them rebuilds.
MCBatchSizes == {Conf(2, 2, 1, 5), Conf(2, 3, 1, 5)}
=============================================================================
