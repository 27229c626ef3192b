--------------------------- MODULE MCDocumentStore ---------------------------
EXTENDS DocumentStore
CONSTANT d1
=============================================================================
