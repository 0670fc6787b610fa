SPECIFICATION Spec
CONSTANTS
  obex = obex ircomm = ircomm irnet = irnet
  NoService = NoService
  MAX_CONNECTIONS = 3
  Caddr = {1}
  Conns <- OneClient
  Service <- Services3And4
  Missed = {}
  Repeated = {}
INVARIANT ValidIsLive
