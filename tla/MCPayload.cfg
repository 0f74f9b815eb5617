SPECIFICATION Spec
CONSTANTS
  Compound = {"VendorId", "ZipCode"}
  WordBits = 6
  Setups <- MCSetups
  Texts <- MCTexts
  Described <- RouteDescribed
  ParamsOf <- AllViewsParameters
  SchemaOf <- RootSchema
INVARIANTS
  RowsAnswered
  AnswersRepeat
  BodiesRead
  DocumentTrue
