---------------------------- MODULE MCModelSetup ----------------------------
(* A provider with a key, one without, and one the registry leaves out.      *)
EXTENDS ModelSetup

CONSTANTS anthropic, custom, ollama

MCDefaults == [default |-> anthropic, enabled |-> {}]
MCConfigs  == [default : {anthropic, custom}, enabled : SUBSET Provider]

=============================================================================
