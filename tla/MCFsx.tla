------------------------------- MODULE MCFsx -------------------------------
\* Instances of Fsx for TLC: random data for the odd offsets.
EXTENDS Fsx

MCOriginal == [i \in Idx |-> (i \div 2 + 1) % Bytes]
=============================================================================
