------------------------------ MODULE MCMailbox ------------------------------
EXTENDS Mailbox

CONSTANTS p1, p2

MCPushers == {p1, p2}

=============================================================================
