SPECIFICATION Spec
CONSTANTS
  obex = obex ircomm = ircomm irnet = irnet
  NoService = NoService
  MAX_CONNECTIONS = 2
  Caddr = {1, 2}
  Conns <- OneClient
  Service <- Services3And4
  Missed = {"CONNECT_CMD", "CONNECT_RSP", "DISCONNECT", "DATA"}
  Repeated = {"CONNECT_CMD", "CONNECT_RSP", "DISCONNECT", "DATA", "IAS_COMMAND", "IAS_RESPONSE"}
INVARIANTS IInv Sound NoZombies
