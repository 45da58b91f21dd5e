---- MODULE MCKernelMailbox ----
EXTENDS KernelMailbox, TLC

\* The threads are interchangeable.
UserSymmetry == Permutations(Users)
====
