----------------------------- MODULE MCPushHub -----------------------------
EXTENDS PushHub

=============================================================================
