------------------------------ MODULE MCViewport ------------------------------
(***************************************************************************)
(* Model-checking instances of Viewport: seven targets, two with a header.  *)
(* The list fits on 11 lines and more.                                      *)
(***************************************************************************)
EXTENDS Viewport

MCHeaded == {0, 4}

\* The options may set any of the toggles.
AllStarts == BOOLEAN \X BOOLEAN \X BOOLEAN

\* A screen that does not show the whole list, and one that does.
GrowingScreens == {<<40, 5>>, <<70, 7>>, <<70, 12>>}

\* One screen that shows the middle of the list at most.
OneScreen == {<<50, 5>>}

===============================================================================
