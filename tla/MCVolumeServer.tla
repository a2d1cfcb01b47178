--------------------------- MODULE MCVolumeServer ---------------------------
EXTENDS VolumeServer

CONSTANTS p, q, a, b

\* Both packages have a volume a, the second has a volume b with large slices.
ThreeVolumes == {<<p, a>>, <<q, a>>, <<q, b>>}
Bytes == [v \in ThreeVolumes |-> IF v[2] = a THEN 2 ELSE 3]

\* The sample client sends two requests; one asks for a volume that is not there.
FewBatches == {<<<<p, a>>>>, <<<<p, a>>, <<q, b>>>>, <<<<q, a>>, <<p, b>>>>,
               <<<<q, b>>, <<q, a>>>>}
=============================================================================
