----------------------------- MODULE MCSettings -----------------------------
EXTENDS Settings
CONSTANTS groq, mock
MCDefault == [f \in Fields |-> groq]
=============================================================================
