------------------------------ MODULE MCReload ------------------------------
(***************************************************************************)
(* TLC instances of the process.  Good and Small are configs that load,    *)
(* the others each fail at another step of a reload.                       *)
(***************************************************************************)
EXTENDS Reload

Good == [id |-> 1, parses |-> TRUE, valid |-> TRUE, groups |-> Groups,
         newFails |-> {}, applyFails |-> {}, loggerFails |-> FALSE]
Small == [Good EXCEPT !.id = 2, !.groups = {CHOOSE g \in Groups : TRUE}]
Unparsable == [Good EXCEPT !.id = 3, !.parses = FALSE]
Invalid == [Good EXCEPT !.id = 4, !.valid = FALSE]
ApplyFails == [Small EXCEPT !.id = 5, !.applyFails = Small.groups]
NewFails == [Small EXCEPT !.id = 6, !.newFails = Small.groups]
LoggerFails == [Small EXCEPT !.id = 7, !.loggerFails = TRUE]

MCConfigs == {Good, Unparsable, Invalid, ApplyFails, NewFails, LoggerFails}
TwoConfigs == {Good, Small}
=============================================================================
