------------------------------ MODULE MCListing ------------------------------
(***************************************************************************)
(* Instances of Listing for TLC: the people and the work of                *)
(* MCPatentWorkflow, and somebody who only reads.                          *)
(***************************************************************************)
EXTENDS Listing, MCPatentWorkflow

CONSTANT reader

All == [status |-> "any", submittedBy |-> None, search |-> None]

\* Everything, two statuses, one submitter, and any text.
MCFilters ==
    {All, [All EXCEPT !.status = "draft"], [All EXCEPT !.status = "approved"],
     [All EXCEPT !.submittedBy = author]} \cup
    {[All EXCEPT !.search = c] : c \in Contents}

=============================================================================
