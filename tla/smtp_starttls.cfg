SPECIFICATION Spec
CONSTANTS
    a1 = a1
    a2 = a2
    u1 = u1
    NullSender = NullSender
    NoUser = NoUser
    Addresses = {a1, a2}
    AllowedRcpts = {a1}
    Users = {u1}
    MaxRecipients = 2
    Servers <- MCServers
PROPERTIES
    StartTLSDiscardsPriorKnowledge
CHECK_DEADLOCK FALSE
