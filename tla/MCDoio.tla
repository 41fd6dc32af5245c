------------------------------- MODULE MCDoio -------------------------------
EXTENDS DoioPipe

Req(t, f, o, n, c) == [type |-> t, file |-> f, flag |-> "buffered", offset |-> o,
                    nbytes |-> n, pattern |-> c]

\* Overlapping writes of one file, and work on another that fills the cache.
MCRequests ==
  {Req("write", 1, 0, 2, 0), Req("pwrite", 1, 1, 1, 1), Req("pwrite", 2, 0, 1, 0),
   Req("pread", 2, 0, 1, 0), Req("unresvsp", 1, 0, 1, 0), Req("fsync2", 1, 0, 1, 0)}

\* They are requests that iogen sends.
ASSUME RequestsOfIogen ==
  \A r \in MCRequests :
    [offset |-> r.offset, nbytes |-> r.nbytes] \in
      form_iorequest([mode |-> "random", o_opt |-> FALSE, Mintrans |-> 1, Maxtrans |-> 2],
                     [length |-> FileLen, mult |-> 1, lastoffset |-> 0, lastlength |-> 0])
=============================================================================
