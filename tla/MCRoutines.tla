---- MODULE MCRoutines ----
EXTENDS Routines
CONSTANTS t1, t2, h
====
