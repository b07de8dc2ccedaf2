\* Four requests: two logins, a refresh and a logout, in any order and overlap.
CONSTANT MaxRequests = 4
SPECIFICATION Spec
INVARIANTS SingleLiveSession SingleUse LogoutIsFinal CredentialIsLive AccessIsOfSession
PROPERTIES GenerationsDoNotReturn SignOutEnds
\* All the requests may have been made.
CHECK_DEADLOCK FALSE
