------------------------------- MODULE Iogen --------------------------------
(***************************************************************************)
(* iogen (io_integration_test.sh.data/ltp/iogen.c) makes up the requests   *)
(* that doio carries out.  form_iorequest() derives the next request on a  *)
(* file from the last one on it; random_range() chooses, so the module has *)
(* the set of the requests that may come out, empty when it returns -1.    *)
(*                                                                         *)
(*   f : length, mult (f_iou or f_riou), lastoffset, lastlength of a file  *)
(*   o : mode, o_opt, Mintrans, Maxtrans of the command line               *)
(***************************************************************************)
EXTENDS Integers, FiniteSetsExt

CONSTANTS
  MaxLength,   \* bound on the file lengths that are looked at
  MaxMult,     \* and on the multiples
  Maxstrides   \* -s

ASSUME IogenAssumption ==
  MaxLength \in Nat /\ MaxMult \in Nat \ {0} /\ Maxstrides \in Nat \ {0}

\* A multiple of mult from a to b; there may be none.
random_range(a, b, mult) == {x \in a .. b : x % mult = 0}

lastend(f) == f.lastoffset + f.lastlength - 1

\* Requests are to overlap, and the last one has room for that.
Overlap(o, f) == o.o_opt /\ lastend(f) > f.lastoffset

minlength(o, f) == Max({o.Mintrans, f.mult})

Requested(off, lengths) == {[offset |-> off, nbytes |-> n] : n \in lengths}

\* After the last request, or within it, rounded up; at the end, from 0 again.
Sequential(o, f) ==
  LET starts == IF Overlap(o, f) THEN f.lastoffset .. lastend(f)
                ELSE {lastend(f) + 1}
      up(s)  == s + ((-s) % f.mult)
      off(s) == IF minlength(o, f) > f.length - up(s) THEN 0 ELSE up(s)
  IN UNION {Requested(off(s),
                      random_range(minlength(o, f),
                                   Min({f.length - off(s), o.Maxtrans}), f.mult))
              : s \in starts}

\* Before the last request, or into it, rounded down; at 0, from the end again.
Backward(o, f) ==
  LET max  == Min({f.lastoffset, o.Maxtrans})
      wrap == minlength(o, f) > max
      start == IF wrap THEN f.length ELSE f.lastoffset
      lens == random_range(minlength(o, f), IF wrap THEN o.Maxtrans ELSE max, f.mult)
      in   == IF ~wrap /\ Overlap(o, f) THEN 1 .. lastend(f) - f.lastoffset ELSE {0}
      down(x) == x - (x % f.mult)
  IN {[offset |-> down(start - n + i), nbytes |-> n] : n \in lens, i \in in}

\* The length in random mode; that there is none (-1) is not noticed here.
RandomLengths(o, f) ==
  LET lens == random_range(o.Mintrans, o.Maxtrans, f.mult)
  IN IF lens = {} THEN {-1} ELSE lens

\* Mutant of Random
RandomLate(o, f) ==
  LET min(n) == IF Overlap(o, f) THEN Max({0, f.lastoffset - n + 1}) ELSE 0
      max(n) == IF Overlap(o, f) /\ lastend(f) <= f.length
                THEN lastend(f) ELSE f.length - n
  IN UNION {{[offset |-> x, nbytes |-> n] : x \in random_range(min(n), max(n), f.mult)}
              : n \in RandomLengths(o, f)}

\* Anywhere, or so that the last request is met.
Random(o, f) ==
  LET min(n) == IF Overlap(o, f) THEN Max({0, f.lastoffset - n + 1}) ELSE 0
      max(n) == IF Overlap(o, f) /\ lastend(f) + n <= f.length
                THEN lastend(f) ELSE f.length - n
  IN UNION {{[offset |-> x, nbytes |-> n] : x \in random_range(min(n), max(n), f.mult)}
              : n \in RandomLengths(o, f)}

form_iorequest(o, f) ==
  CASE o.mode = "sequential" -> Sequential(o, f)
    [] o.mode = "reverse"    -> Backward(o, f)
    [] o.mode = "random"     -> Random(o, f)

\* The strides of a strided request of this length: how many, how long.
Strides(length, mult) ==
  LET stride(n) ==
        LET s == length \div n
            t == IF mult > s THEN mult ELSE s - (s % mult)
        IN IF s % mult = 0 THEN [n |-> n, length |-> s]
           ELSE [n |-> Min({length \div t, Maxstrides}), length |-> t]
  IN {stride(n) : n \in 1 .. Min({length \div mult, Maxstrides})}

\* The place that parse_cmdline() gives to the request before the first one.
FirstPlace(mode, length) ==
  CASE mode = "sequential" -> 0
    [] mode = "reverse"    -> length
    [] mode = "random"     -> length \div 2

-----------------------------------------------------------------------------

\* parse_cmdline() ignores a file that is shorter than Mintrans or Maxtrans.
\* Of the sizes from Mintrans to Maxtrans one is a multiple, as with the defaults.
Options == {o \in [mode : {"sequential", "reverse", "random"}, o_opt : BOOLEAN,
                   Mintrans : 1 .. MaxLength, Maxtrans : 1 .. MaxLength] :
              o.Mintrans <= o.Maxtrans}
FilesFor(o) ==
  {f \in [length : o.Maxtrans .. MaxLength, mult : 1 .. MaxMult,
          lastoffset : 0 .. MaxLength, lastlength : 0 .. MaxLength] :
     /\ random_range(o.Mintrans, o.Maxtrans, f.mult) # {}
     /\ f.lastoffset + f.lastlength <= f.length}

\* Whatever request within a file was the last one, whatever its alignment, the
\* next one lies within the file too (so all of them do), is aligned, is not
\* empty and not longer than Maxtrans; in random mode it meets the last one when
\* it is to overlap; its strides fit into it; and there is one, if the sizes are
\* multiples themselves.
RequestsFit ==
  \A o \in Options :
    /\ \A n \in 1 .. MaxLength : FirstPlace(o.mode, n) \in 0 .. n
    /\ \A f \in FilesFor(o) :
         LET rs == form_iorequest(o, f) IN
         /\ o.Mintrans % f.mult = 0 /\ f.length % f.mult = 0 => rs # {}
         /\ \A r \in rs :
              /\ r.offset >= 0 /\ r.offset + r.nbytes <= f.length
              /\ r.nbytes \in 1 .. o.Maxtrans
              /\ r.offset % f.mult = 0 /\ r.nbytes % f.mult = 0
              /\ o.mode = "random" /\ Overlap(o, f) =>
                   r.offset <= lastend(f) /\ r.offset + r.nbytes > f.lastoffset
              /\ \A s \in Strides(r.nbytes, f.mult) :
                   /\ s.n \in 1 .. Maxstrides /\ s.n * s.length <= r.nbytes
                   /\ s.length > 0 /\ s.length % f.mult = 0
=============================================================================
