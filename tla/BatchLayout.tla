---------------------------- MODULE BatchLayout ----------------------------
(***************************************************************************)
(* How sphere_streaming_context splits the spheres of a data set into      *)
(* batches: rebuild, batch_elements and offset of trrojand3d12/src/        *)
(* sphere_streaming_context.cpp, counted in spheres instead of bytes.      *)
(***************************************************************************)
EXTENDS Integers

\* rebuild: the number of batches of batch_size spheres in a data set.
TotalBatches(spheres, batch_size) ==
    (spheres \div batch_size) + (IF spheres % batch_size # 0 THEN 1 ELSE 0)

\* batch_elements(batch): all batches are full but, possibly, the last one.
BatchElements(total_batches, spheres, batch_size, batch) ==
    IF batch = total_batches - 1 /\ spheres % batch_size > 0
    THEN spheres % batch_size
    ELSE batch_size

\* offset(batch): the first sphere of a batch.
BatchOffset(batch_size, batch) == batch * batch_size

\* The spheres that rendering the batch draws.
BatchSpheres(total_batches, spheres, batch_size, batch) ==
    LET first == BatchOffset(batch_size, batch)
    IN  first .. first + BatchElements(total_batches, spheres, batch_size, batch) - 1
=============================================================================
