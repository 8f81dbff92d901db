SPECIFICATION Spec
CONSTANTS
  Procs = {server, doctor}
  Server = server
  Fields = {provider, model}
  groq = groq
  mock = mock
  Values = {groq, mock}
  Default <- MCDefault
  Unset = unset
  Absent = absent
  Empty = empty
  Mixed = mixed
  MaxStarts = 4
INVARIANT SettingsAgree
CHECK_DEADLOCK FALSE
