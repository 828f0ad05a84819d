------------------------------- MODULE Percent -------------------------------
(***************************************************************************)
(* Accuracies leave the pintools as decimal numbers with six significant   *)
(* digits; from 10 percent up and below 100 that is a whole number of      *)
(* ten-thousandths of a percent, the unit used here.  Below 10 percent the *)
(* files have more digits than the model.                                  *)
(***************************************************************************)
EXTENDS Integers

\* Mutant: the division is one of integers.
AccuracyMut(c, p) == IF p = 0 THEN 0 ELSE 1000000 * (c \div p)

\* (double)c / p * 100.0 as operator<< writes it: the digits of c / p, three
\* at a time so that the numbers stay small, and the last one rounded, a tie
\* to the even digit.
Accuracy(c, p) ==
  IF p = 0 THEN 0
  ELSE LET first == (1000 * c) \div p
           rest  == (1000 * c) % p
           last  == (1000 * rest) \div p
           lost  == 2 * ((1000 * rest) % p)
       IN  1000 * first + last
             + (IF lost > p \/ (lost = p /\ last % 2 = 1) THEN 1 ELSE 0)
=============================================================================
