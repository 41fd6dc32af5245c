------------------------------ MODULE DoioPipe ------------------------------
(***************************************************************************)
(* doio reads its requests from a pipe that iogen writes: the children of  *)
(* Doio with the requests of Iogen.                                        *)
(***************************************************************************)
EXTENDS Doio, Iogen

\* Every request that is still to come through the pipe suits its file, whatever
\* the last request on it was (form_iorequest(), see RequestsFit): within the
\* file, aligned, not empty, overlapping when it is to; and iogen, which goes on
\* when it cannot form one, never goes on for ever without one.
PipeFits == left > 0 => RequestsFit
=============================================================================
