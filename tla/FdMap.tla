-------------------------------- MODULE FdMap --------------------------------
(***************************************************************************)
(* What conn_store promises: a map from descriptors to connections.        *)
(***************************************************************************)
CONSTANTS Fds, Conns, NoConn
VARIABLE map

Init == map = [fd \in Fds |-> NoConn]

\* What fd maps to is put, replaced or, with NoConn, deleted.
Update(fd) ==
  /\ map'[fd] \in Conns \cup {NoConn}
  /\ map' = [map EXCEPT ![fd] = map'[fd]]

Next == \E fd \in Fds : Update(fd)
Spec == Init /\ [][Next]_map
=============================================================================
