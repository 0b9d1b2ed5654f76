-------------------------- MODULE MCProviderSettings --------------------------
EXTENDS ProviderSettings

CONSTANTS codex, claude, recommended, other

MCOffers == [d \in Drivers |-> IF d = codex THEN {recommended, other} ELSE {recommended}]

MCOthersTeams == {[driver |-> claude, pick |-> recommended], Absent}

\* Bounds of a run: a provider is installed only where a first start asks for one,
\* and a dialog is answered before a second request is made.
InstallsInTheGate == editor.install = Absent \/ editor.firstRun
DialogOverOneRequest == editor.dialogs # <<>> => Waiting(editor) <= 1
=============================================================================
