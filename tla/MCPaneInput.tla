---------------------------- MODULE MCPaneInput ----------------------------
EXTENDS PaneInput
MCKeys == {<<"t">>, <<"n">>, <<"v">>, <<"E", "B">>, <<"E", "D">>}
=============================================================================
