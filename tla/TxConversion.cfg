CONSTANTS
  signer = signer
  receiver = receiver
  zero = zero
  Submissions <- AllSubmissions
  BaseFees = {0, 1}
  BlobFee = 1
  ChainId = 1
  Balances = {0, 5, 9}
  Encode <- EncodingOf
  TxHash <- HashOf
  Authority <- AuthorityOf
  Zero = zero
  MaxU64 = 4

SPECIFICATION Spec
INVARIANT AdmittedAsSigned
INVARIANT PathsAgree
INVARIANT AllowanceAffordable
