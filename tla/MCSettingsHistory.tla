------------------------- MODULE MCSettingsHistory -------------------------
EXTENDS SettingsHistory

CONSTANTS s1, s2, key, file

MCPicks == {<<s1, key>>}

=============================================================================
